---- MODULE Spec2Model ----
(***************************************************************************)
(* A model of the RepoBox collection pipeline: the repository fetcher      *)
(* (collector/utils.py), the multi-store writer and the ingestion driver   *)
(* (collector/collect_repos.py), the user-profile writer                   *)
(* (collector/collect_user_profile.py), the aggregation passes             *)
(* (collector/aggregate_data.py), the relational sync                      *)
(* (collector/sync_to_postgres.py) and the API's response cache            *)
(* (backend/api.py).                                                       *)
(*                                                                         *)
(* Python strings are sequences of one-character strings, so that          *)
(* replace(), lower(), title(), slicing and the substring test work on     *)
(* them as they do in the code.  Field names, node labels and relationship *)
(* types are identifiers of the code and stay TLA+ strings.                *)
(***************************************************************************)
EXTENDS Integers, Sequences, FiniteSets, TLC

(***************************************************************************)
(* Bounds of the model.                                                    *)
(***************************************************************************)
\* store_repo / store_user_data calls in one behaviour of Spec, SpecAggregate,
\* SpecReingest, SpecSync and SpecApi
MaxWrites == 2

\* store_repo calls in one behaviour of SpecRecent: more than 'recent:repos' keeps
MaxRecent == 102

\* the documents of a snapshot of the repositories collection
MaxSnapshot == 4

\* the topics of a repository the keyword matchers are applied to
MaxTopics == 3

\* requests to the API in one behaviour of SpecApi
MaxRequests == 3

\* the clock of the cache store in SpecApi: past the expiry of a response
MaxClock == 400

(***************************************************************************)
(* Strings.                                                                *)
(***************************************************************************)
framework_map ==
  << <<<<"d","j","a","n","g","o">>, <<"P","y","t","h","o","n">>>>,
     <<<<"f","l","a","s","k">>, <<"P","y","t","h","o","n">>>>,
     <<<<"f","a","s","t","a","p","i">>, <<"P","y","t","h","o","n">>>>,
     <<<<"r","e","a","c","t">>, <<"J","a","v","a","S","c","r","i","p","t">>>>,
     <<<<"v","u","e">>, <<"J","a","v","a","S","c","r","i","p","t">>>>,
     <<<<"a","n","g","u","l","a","r">>, <<"J","a","v","a","S","c","r","i","p","t">>>>,
     <<<<"e","x","p","r","e","s","s">>, <<"J","a","v","a","S","c","r","i","p","t">>>>,
     <<<<"n","e","x","t","j","s">>, <<"J","a","v","a","S","c","r","i","p","t">>>>,
     <<<<"n","e","s","t">>, <<"T","y","p","e","S","c","r","i","p","t">>>>,
     <<<<"s","p","r","i","n","g">>, <<"J","a","v","a">>>>,
     <<<<"l","a","r","a","v","e","l">>, <<"P","H","P">>>>,
     <<<<"r","a","i","l","s">>, <<"R","u","b","y">>>>,
     <<<<"g","i","n">>, <<"G","o">>>>,
     <<<<"f","i","b","e","r">>, <<"G","o">>>>,
     <<<<"a","c","t","i","x">>, <<"R","u","s","t">>>>,
     <<<<"r","o","c","k","e","t">>, <<"R","u","s","t">>>>,
     <<<<"a","s","p",".","n","e","t">>, <<"C","#">>>>,
     <<<<"b","l","a","z","o","r">>, <<"C","#">>>> >>

dep_map ==
  << <<<<"n","u","m","p","y">>, <<"P","y","t","h","o","n">>>>,
     <<<<"p","a","n","d","a","s">>, <<"P","y","t","h","o","n">>>>,
     <<<<"t","e","n","s","o","r","f","l","o","w">>, <<"P","y","t","h","o","n">>>>,
     <<<<"p","y","t","o","r","c","h">>, <<"P","y","t","h","o","n">>>>,
     <<<<"s","c","i","k","i","t","-","l","e","a","r","n">>, <<"P","y","t","h","o","n">>>>,
     <<<<"m","a","t","p","l","o","t","l","i","b">>, <<"P","y","t","h","o","n">>>>,
     <<<<"a","x","i","o","s">>, <<"J","a","v","a","S","c","r","i","p","t">>>>,
     <<<<"l","o","d","a","s","h">>, <<"J","a","v","a","S","c","r","i","p","t">>>>,
     <<<<"m","o","m","e","n","t">>, <<"J","a","v","a","S","c","r","i","p","t">>>>,
     <<<<"r","e","d","u","x">>, <<"J","a","v","a","S","c","r","i","p","t">>>>,
     <<<<"w","e","b","p","a","c","k">>, <<"J","a","v","a","S","c","r","i","p","t">>>>,
     <<<<"b","a","b","e","l">>, <<"J","a","v","a","S","c","r","i","p","t">>>>,
     <<<<"j","u","n","i","t">>, <<"J","a","v","a">>>>,
     <<<<"m","o","c","k","i","t","o">>, <<"J","a","v","a">>>>,
     <<<<"h","i","b","e","r","n","a","t","e">>, <<"J","a","v","a">>>>,
     <<<<"t","o","k","i","o">>, <<"R","u","s","t">>>>,
     <<<<"s","e","r","d","e">>, <<"R","u","s","t">>>>,
     <<<<"c","l","a","p">>, <<"R","u","s","t">>>>,
     <<<<"g","i","n">>, <<"G","o">>>>,
     <<<<"g","o","r","m">>, <<"G","o">>>>,
     <<<<"c","o","b","r","a">>, <<"G","o">>>> >>

cities ==
  << <<<<"S","a","n"," ","F","r","a","n","c","i","s","c","o">>, <<<<"s","a","n"," ","f","r","a","n","c","i","s","c","o">>, <<"s","f",","," ","c","a">>>>>>,
     <<<<"N","e","w"," ","Y","o","r","k">>, <<<<"n","e","w"," ","y","o","r","k">>, <<"n","y","c">>, <<"n","y">>>>>>,
     <<<<"L","o","n","d","o","n">>, <<<<"l","o","n","d","o","n">>>>>>,
     <<<<"P","a","r","i","s">>, <<<<"p","a","r","i","s">>>>>>,
     <<<<"B","e","r","l","i","n">>, <<<<"b","e","r","l","i","n">>>>>>,
     <<<<"T","o","k","y","o">>, <<<<"t","o","k","y","o">>>>>>,
     <<<<"B","e","i","j","i","n","g">>, <<<<"b","e","i","j","i","n","g">>>>>>,
     <<<<"S","h","a","n","g","h","a","i">>, <<<<"s","h","a","n","g","h","a","i">>>>>>,
     <<<<"S","e","a","t","t","l","e">>, <<<<"s","e","a","t","t","l","e">>>>>>,
     <<<<"A","u","s","t","i","n">>, <<<<"a","u","s","t","i","n">>>>>>,
     <<<<"B","o","s","t","o","n">>, <<<<"b","o","s","t","o","n">>>>>>,
     <<<<"C","h","i","c","a","g","o">>, <<<<"c","h","i","c","a","g","o">>>>>>,
     <<<<"L","o","s"," ","A","n","g","e","l","e","s">>, <<<<"l","o","s"," ","a","n","g","e","l","e","s">>, <<"l","a",","," ","c","a">>>>>>,
     <<<<"T","o","r","o","n","t","o">>, <<<<"t","o","r","o","n","t","o">>>>>>,
     <<<<"V","a","n","c","o","u","v","e","r">>, <<<<"v","a","n","c","o","u","v","e","r">>>>>>,
     <<<<"S","y","d","n","e","y">>, <<<<"s","y","d","n","e","y">>>>>>,
     <<<<"M","e","l","b","o","u","r","n","e">>, <<<<"m","e","l","b","o","u","r","n","e">>>>>>,
     <<<<"S","i","n","g","a","p","o","r","e">>, <<<<"s","i","n","g","a","p","o","r","e">>>>>>,
     <<<<"B","a","n","g","a","l","o","r","e">>, <<<<"b","a","n","g","a","l","o","r","e">>, <<"b","e","n","g","a","l","u","r","u">>>>>>,
     <<<<"M","u","m","b","a","i">>, <<<<"m","u","m","b","a","i">>>>>>,
     <<<<"T","e","l"," ","A","v","i","v">>, <<<<"t","e","l"," ","a","v","i","v">>>>>>,
     <<<<"A","m","s","t","e","r","d","a","m">>, <<<<"a","m","s","t","e","r","d","a","m">>>>>>,
     <<<<"S","t","o","c","k","h","o","l","m">>, <<<<"s","t","o","c","k","h","o","l","m">>>>>>,
     <<<<"C","o","p","e","n","h","a","g","e","n">>, <<<<"c","o","p","e","n","h","a","g","e","n">>>>>> >>

lang_colors ==
  << <<<<"P","y","t","h","o","n">>, <<"#","3","5","7","2","A","5">>>>,
     <<<<"J","a","v","a","S","c","r","i","p","t">>, <<"#","f","1","e","0","5","a">>>>,
     <<<<"T","y","p","e","S","c","r","i","p","t">>, <<"#","2","b","7","4","8","9">>>>,
     <<<<"G","o">>, <<"#","0","0","A","D","D","8">>>>,
     <<<<"R","u","s","t">>, <<"#","d","e","a","5","8","4">>>>,
     <<<<"J","a","v","a">>, <<"#","b","0","7","2","1","9">>>>,
     <<<<"C","+","+">>, <<"#","f","3","4","b","7","d">>>>,
     <<<<"C","#">>, <<"#","1","7","8","6","0","0">>>>,
     <<<<"C">>, <<"#","5","5","5","5","5","5">>>> >>

LowerChars ==
  <<"a","b","c","d","e","f","g","h","i","j","k","l","m","n","o","p","q","r","s","t","u","v","w","x","y","z">>

UpperChars ==
  <<"A","B","C","D","E","F","G","H","I","J","K","L","M","N","O","P","Q","R","S","T","U","V","W","X","Y","Z">>

AsciiChars ==
  <<" ","#","'",",","-",".","/","0","1","2","3","4","5","6","7","8","9",":","<",">","A","B","C","D","E","F","G","H","I","J","K","L","M","N","O","P","Q","R","S","T","U","V","W","X","Y","Z","\\","_","a","b","c","d","e","f","g","h","i","j","k","l","m","n","o","p","q","r","s","t","u","v","w","x","y","z">>

\* the string literals of the code
Lit ==
  [
    Global |-> <<"G","l","o","b","a","l">>,
    Japan |-> <<"J","a","p","a","n">>,
    Unknown |-> <<"U","n","k","n","o","w","n">>,
    User |-> <<"U","s","e","r">>,
    Organization |-> <<"O","r","g","a","n","i","z","a","t","i","o","n">>,
    default_color |-> <<"#","c","c","c","c","c","c">>,
    country |-> <<"c","o","u","n","t","r","y">>,
    programming |-> <<"p","r","o","g","r","a","m","m","i","n","g">>,
    web |-> <<"w","e","b">>,
    library |-> <<"l","i","b","r","a","r","y">>,
    owner |-> <<"o","w","n","e","r">>,
    France |-> <<"F","r","a","n","c","e">>,
    Go |-> <<"G","o">>,
    Python |-> <<"P","y","t","h","o","n">>,
    api |-> <<"a","p","i",":">>,
    get_repos_by_location |-> <<"g","e","t","_","r","e","p","o","s","_","b","y","_",
                                "l","o","c","a","t","i","o","n">>,
    get_languages |-> <<"g","e","t","_","l","a","n","g","u","a","g","e","s">>,
    location |-> <<"l","o","c","a","t","i","o","n">>,
    limit |-> <<"l","i","m","i","t">> ]

\* the cache keys, and the parts of the keys that are built from a value
CacheKey ==
  [
    leaderboard_global_stars |-> <<"l","e","a","d","e","r","b","o","a","r","d",":","g","l","o","b","a","l",":","s","t","a","r","s">>,
    leaderboard_global_forks |-> <<"l","e","a","d","e","r","b","o","a","r","d",":","g","l","o","b","a","l",":","f","o","r","k","s">>,
    leaderboard_language |-> <<"l","e","a","d","e","r","b","o","a","r","d",":","l","a","n","g","u","a","g","e",":">>,
    owner |-> <<"o","w","n","e","r",":">>,
    stats |-> <<":","s","t","a","t","s">>,
    stats_languages |-> <<"s","t","a","t","s",":","l","a","n","g","u","a","g","e","s">>,
    trending_languages |-> <<"t","r","e","n","d","i","n","g",":","l","a","n","g","u","a","g","e","s">>,
    trending_topics |-> <<"t","r","e","n","d","i","n","g",":","t","o","p","i","c","s">>,
    trending_frameworks |-> <<"t","r","e","n","d","i","n","g",":","f","r","a","m","e","w","o","r","k","s">>,
    repo |-> <<"r","e","p","o",":">>,
    leaderboard_location |-> <<"l","e","a","d","e","r","b","o","a","r","d",":","l","o","c","a","t","i","o","n",":">>,
    stats_location |-> <<"s","t","a","t","s",":","l","o","c","a","t","i","o","n",":">>,
    location |-> <<"l","o","c","a","t","i","o","n",":">>,
    languages |-> <<":","l","a","n","g","u","a","g","e","s">>,
    recent_repos |-> <<"r","e","c","e","n","t",":","r","e","p","o","s">> ]

\* the fields of the hashes
HashField ==
  [
    total_repos |-> <<"t","o","t","a","l","_","r","e","p","o","s">>,
    total_stars |-> <<"t","o","t","a","l","_","s","t","a","r","s">>,
    total_forks |-> <<"t","o","t","a","l","_","f","o","r","k","s">>,
    name |-> <<"n","a","m","e">>,
    stars |-> <<"s","t","a","r","s">>,
    forks |-> <<"f","o","r","k","s">>,
    language |-> <<"l","a","n","g","u","a","g","e">>,
    owner |-> <<"o","w","n","e","r">> ]

\* Python's None.  It is not a string of the data: no character is "<None>".
None == <<"<None>">>

\* bool(v) of a string-or-None value
Truthy_not_none(v) == v # None

Truthy(v) == v # None /\ v # << >>

\* str(v) as an f-string formats it
Str(v) == IF v = None THEN <<"N","o","n","e">> ELSE v

IndexIn(c, chars) == CHOOSE i \in 1..Len(chars) : chars[i] = c

IsUpper(c) == \E i \in 1..Len(UpperChars) : UpperChars[i] = c

IsLower(c) == \E i \in 1..Len(LowerChars) : LowerChars[i] = c

LowerChar(c) == IF IsUpper(c) THEN LowerChars[IndexIn(c, UpperChars)] ELSE c

UpperChar(c) == IF IsLower(c) THEN UpperChars[IndexIn(c, LowerChars)] ELSE c

\* str.lower()
Lower(s) == [i \in 1..Len(s) |-> LowerChar(s[i])]

\* str.upper()
Upper(s) == [i \in 1..Len(s) |-> UpperChar(s[i])]

\* str.title(): a letter that follows a non-letter is upper-cased, every
\* other letter is lower-cased
Title(s) ==
  [i \in 1..Len(s) |->
     IF i = 1 \/ ~(IsUpper(s[i-1]) \/ IsLower(s[i-1]))
     THEN UpperChar(s[i]) ELSE LowerChar(s[i])]

\* s[:n]
Prefix(s, n) == SubSeq(s, 1, IF Len(s) < n THEN Len(s) ELSE n)

\* s.replace(c, by) for a one-character c
RECURSIVE Replace(_, _, _)
Replace(s, c, by) ==
  IF s = << >> THEN << >>
  ELSE (IF Head(s) = c THEN by ELSE <<Head(s)>>) \o Replace(Tail(s), c, by)

\* `pat in s`
Contains(s, pat) ==
  \E i \in 0..(Len(s) - Len(pat)) : SubSeq(s, i + 1, i + Len(pat)) = pat

\* sep.join(parts)
RECURSIVE Join(_, _)
Join(parts, sep) ==
  IF parts = << >> THEN << >>
  ELSE IF Len(parts) = 1 THEN parts[1]
  ELSE parts[1] \o sep \o Join(Tail(parts), sep)

\* s.startswith(p), the match of the pattern 'p*'
StartsWith(s, p) == Len(p) <= Len(s) /\ SubSeq(s, 1, Len(p)) = p

\* seq[:n] of a list
Take(seq, n) == SubSeq(seq, 1, IF Len(seq) < n THEN Len(seq) ELSE n)

Max(a, b) == IF a < b THEN b ELSE a

Digits == <<"0","1","2","3","4","5","6","7","8","9">>

\* str(n) of a natural number
RECURSIVE DecStr(_)
DecStr(n) ==
  IF n < 10 THEN <<Digits[n + 1]>> ELSE DecStr(n \div 10) \o <<Digits[(n % 10) + 1]>>

(***************************************************************************)
(* Keyword matchers (collect_repos.py, lines 18-99).  A repository record  *)
(* is a record with the fields of the search API's items that the code     *)
(* reads; see Repo below.                                                  *)
(***************************************************************************)
\* f"{' '.join(repo.get('topics', []))} {repo.get('description', '')}".lower()
MatchText(repo) ==
  Lower(Join(repo.topics, <<" ">>) \o <<" ">> \o Str(repo.description))

\* _detect_frameworks keeping the last three matches
_detect_frameworks_last(repo) ==
  LET text == MatchText(repo)
      Hit(entry) == Contains(text, entry[1])
      found == SelectSeq(framework_map, Hit)
      named == [i \in 1..Len(found) |-> <<Title(found[i][1]), found[i][2]>>]
  IN  SubSeq(named, Max(1, Len(named) - 2), Len(named))

_detect_frameworks(repo) ==
  LET text == MatchText(repo)
      Hit(entry) == Contains(text, entry[1])
      found == SelectSeq(framework_map, Hit)
  IN  Take([i \in 1..Len(found) |-> <<Title(found[i][1]), found[i][2]>>], 3)

_detect_dependencies(repo) ==
  LET text == MatchText(repo)
      Hit(entry) == Contains(text, entry[1])
  IN  Take(SelectSeq(dep_map, Hit), 3)

\* the first city of the table one of whose patterns occurs in the
\* lower-cased location; None when the location is empty or matches nothing
_extract_city(location_str) ==
  IF ~Truthy(location_str) THEN None
  ELSE LET location_lower == Lower(location_str)
           Hit(entry) == \E p \in 1..Len(entry[2]) : Contains(location_lower, entry[2][p])
           found == SelectSeq(cities, Hit)
       IN  IF found = << >> THEN None ELSE found[1][1]

(***************************************************************************)
(* Repository records as the search API returns them.  Of the fields the   *)
(* code only copies from the record into the stores (html_url, size,       *)
(* watchers_count, open_issues_count, created_at, updated_at, fork,        *)
(* default_branch, has_wiki, has_issues, avatar_url) the model keeps       *)
(* watchers_count; name, full_name, owner, the counts, language, topics    *)
(* and description are the fields the code computes with.                  *)
(***************************************************************************)
Repo(login, type, location, name, stars, forks, language, topics, description) ==
  [ name |-> name,
    full_name |-> login \o <<"/">> \o name,
    owner |-> [login |-> login, type |-> type, location |-> location],
    stargazers_count |-> stars,
    forks_count |-> forks,
    watchers_count |-> stars,
    language |-> language,
    topics |-> topics,
    description |-> description ]

\* a/b_c, owned by a user in Paris, tagged django, with a quote in its description
RepoA ==
  Repo(<<"a">>, Lit.User, <<"P","a","r","i","s">>, <<"b","_","c">>, 2, 1, Lit.Go,
       << <<"d","j","a","n","g","o">> >>, <<"i","t","'","s">>)

\* the same repository after upstream gained a star
RepoA3 == [RepoA EXCEPT !.stargazers_count = 3, !.watchers_count = 3]

\* a_b/c, owned by an organization, with no topics and a null description
RepoB ==
  Repo(<<"a","_","b">>, Lit.Organization, << >>, <<"c">>, 1, 0, Lit.Go, << >>, None)

\* a/c, with a null language
RepoC ==
  Repo(<<"a">>, Lit.User, << >>, <<"c">>, 1, 1, None,
       << <<"n","u","m","p","y">> >>, << >>)

\* a/d, whose description ends in a backslash
RepoD ==
  Repo(<<"a">>, Lit.User, << >>, <<"d">>, 4, 0, Lit.Python, << >>, <<"c",":","\\">>)

\* r/<n>: the n-th of a run of repositories of one owner
RecentRepo(n) ==
  Repo(<<"r">>, Lit.User, << >>, DecStr(n), n % 3, n % 2, Lit.Go, << >>, << >>)

\* a/p, a second repository tagged django, in another language and with a
\* second topic
RepoP ==
  Repo(<<"a">>, Lit.User, << >>, <<"p">>, 5, 2, Lit.Python,
       << <<"d","j","a","n","g","o">>, <<"n","u","m","p","y">> >>, << >>)

Repos == {RepoA, RepoA3, RepoB, RepoC, RepoD, RepoP}

\* the records the writers are called with directly
WriterRepos == {RepoA, RepoA3, RepoB, RepoC}

\* config.FILTER_BY_COUNTRY: '' (no filter) or a country
Countries == {<< >>, Lit.France}

(***************************************************************************)
(* The graph store (Memgraph).  Nodes and relationships are kept in        *)
(* creation order; a relationship refers to its end nodes by their         *)
(* position in mg.nodes.  Nothing in the model makes nodes or              *)
(* relationships unique: only MERGE does.                                  *)
(***************************************************************************)
\* s.replace("'", "\\'")
Escape(s) == Replace(s, "'", <<"\\", "'">>)

\* Whether the text between the quotes of a Cypher string literal '...' is
\* read as one literal: a backslash takes the next character with it, a bare
\* quote ends the literal before the query's own closing quote.
RECURSIVE CypherOK(_)
CypherOK(s) ==
  IF s = << >> THEN TRUE
  ELSE IF Head(s) = "\\" THEN Len(s) >= 2 /\ CypherOK(Tail(Tail(s)))
  ELSE IF Head(s) = "'" THEN FALSE
  ELSE CypherOK(Tail(s))

\* The value of a well-formed literal
RECURSIVE CypherValue(_)
CypherValue(s) ==
  IF s = << >> THEN << >>
  ELSE IF Head(s) = "\\" THEN <<s[2]>> \o CypherValue(Tail(Tail(s)))
  ELSE <<Head(s)>> \o CypherValue(Tail(s))

\* r1 overwritten by the fields of r2 (SET on a node, $set on a document)
MergeRec(r1, r2) ==
  [f \in DOMAIN r1 \cup DOMAIN r2 |-> IF f \in DOMAIN r2 THEN r2[f] ELSE r1[f]]

\* MERGE (n:label {<key>: 'key'}) SET n.<prop> = '<value>', ...
\* key and the string properties are the literals as the query text holds them
MergeNode(label, key, strs, nums) ==
  [op |-> "merge_node", label |-> label, key |-> key, strs |-> strs, nums |-> nums]

\* MATCH (a:alabel {..: 'akey'}) MATCH (b:blabel {..: 'bkey'}) MERGE (a)-[:type]->(b)
MergeRel(type, alabel, akey, blabel, bkey) ==
  [op |-> "merge_rel", type |-> type, alabel |-> alabel, akey |-> akey,
   blabel |-> blabel, bkey |-> bkey]

\* the string literals of a query
Literals(q) ==
  IF q.op = "merge_node"
  THEN {q.key} \cup {q.strs[f] : f \in DOMAIN q.strs}
  ELSE {q.akey, q.bkey}

\* the query parses
QueryOK(q) == \A s \in Literals(q) : CypherOK(s)

Matches(nodes, label, key) ==
  {i \in 1..Len(nodes) : nodes[i].label = label /\ nodes[i].key = key}

\* CREATE in place of MERGE: a new node whether or not one matches
ExecCreateNode(nodes, q) ==
  Append(nodes,
         [label |-> q.label, key |-> CypherValue(q.key),
          props |-> MergeRec([f \in DOMAIN q.strs |-> CypherValue(q.strs[f])], q.nums)])

\* MERGE of a node: SET on every node that matches, a new node when none does
ExecMergeNode(nodes, q) ==
  LET key == CypherValue(q.key)
      props == MergeRec([f \in DOMAIN q.strs |-> CypherValue(q.strs[f])], q.nums)
      m == Matches(nodes, q.label, key)
  IN  IF m = {}
      THEN Append(nodes, [label |-> q.label, key |-> key, props |-> props])
      ELSE [i \in 1..Len(nodes) |->
              IF i \in m THEN [nodes[i] EXCEPT !.props = MergeRec(@, props)]
              ELSE nodes[i]]

\* the pairs of a set, one after the other
RECURSIVE SeqOfSet(_)
SeqOfSet(S) ==
  IF S = {} THEN << >>
  ELSE LET x == CHOOSE y \in S : \A z \in S : y[1] < z[1] \/ (y[1] = z[1] /\ y[2] <= z[2])
       IN  <<x>> \o SeqOfSet(S \ {x})

\* MERGE of a relationship between every pair of matched nodes that has none
ExecMergeRel(nodes, rels, q) ==
  LET as == Matches(nodes, q.alabel, CypherValue(q.akey))
      bs == Matches(nodes, q.blabel, CypherValue(q.bkey))
      missing == {p \in as \X bs :
                    ~\E j \in 1..Len(rels) :
                       rels[j] = [type |-> q.type, src |-> p[1], dst |-> p[2]]}
      new == SeqOfSet(missing)
  IN  rels \o [j \in 1..Len(new) |-> [type |-> q.type, src |-> new[j][1], dst |-> new[j][2]]]

\* mg.execute(query) on the graph g = [nodes, rels]
Execute(g, q) ==
  IF q.op = "merge_node"
  THEN [nodes |-> ExecMergeNode(g.nodes, q), rels |-> g.rels]
  ELSE [nodes |-> g.nodes, rels |-> ExecMergeRel(g.nodes, g.rels, q)]

\* The queries of qs run in order until one raises: the first that does not
\* parse, or the one after `limit` queries when the store fails there
\* (limit = -1: the store does not fail).  [g, raised]
RECURSIVE RunQueries(_, _, _)
RunQueries(g, qs, limit) ==
  IF qs = << >> THEN [g |-> g, raised |-> FALSE]
  ELSE IF limit = 0 \/ ~QueryOK(Head(qs)) THEN [g |-> g, raised |-> TRUE]
  ELSE RunQueries(Execute(g, Head(qs)), Tail(qs), IF limit > 0 THEN limit - 1 ELSE limit)

\* the elements of a sequence of sequences, one after the other
RECURSIVE Flatten(_)
Flatten(ss) == IF ss = << >> THEN << >> ELSE Head(ss) \o Flatten(Tail(ss))

\* the queries of store_repo's graph part, in the order the code sends them
GraphQueries(repo, country) ==
  LET repo_name == Escape(repo.name)
      repo_full_name == Escape(repo.full_name)
      repo_desc == IF Truthy(repo.description)
                   THEN Prefix(Escape(repo.description), 200) ELSE << >>
      owner_login == Escape(repo.owner.login)
      owner_type == repo.owner.type
      owner_label == IF owner_type = Lit.User THEN "User" ELSE "Organization"
      country_clean == Escape(country)
      city_name == _extract_city(repo.owner.location)
      city_clean == Escape(city_name)
      lang == Escape(repo.language)
      color == LET hit == SelectSeq(lang_colors, LAMBDA e : e[1] = lang)
               IN  IF hit = << >> THEN Lit.default_color ELSE hit[1][2]
      topics == Take(repo.topics, 5)
      frameworks == _detect_frameworks(repo)
      dependencies == _detect_dependencies(repo)
      contributor_id == Escape(owner_login \o <<"_">> \o repo_full_name)
  IN
    << MergeNode("Repository", repo_full_name,
                 [name |-> repo_name, description |-> repo_desc],
                 [stars |-> repo.stargazers_count, forks |-> repo.forks_count,
                  watchers |-> repo.watchers_count]),
       MergeNode(owner_label, owner_login,
                 [type |-> IF owner_type = Lit.User THEN Lit.User ELSE Lit.Organization],
                 << >>),
       MergeRel("OWNED_BY", "Repository", repo_full_name, owner_label, owner_login) >>
    \o (IF Truthy(country)
        THEN << MergeNode("Location", country_clean,
                          [code |-> Upper(Prefix(country_clean, 2)), type |-> Lit.country],
                          << >>),
                MergeRel("LOCATED_IN", "Repository", repo_full_name,
                         "Location", country_clean) >>
             \o (IF Truthy(city_name)
                 THEN << MergeNode("City", city_clean, [country |-> country_clean], << >>),
                         MergeRel("PART_OF", "City", city_clean, "Location", country_clean),
                         MergeRel("LOCATED_IN", owner_label, owner_login,
                                  "City", city_clean) >>
                 ELSE << >>)
        ELSE << >>)
    \o (IF Truthy(repo.language)
        THEN << MergeNode("Language", lang,
                          [color |-> color, type |-> Lit.programming], << >>),
                MergeRel("USES", "Repository", repo_full_name, "Language", lang) >>
        ELSE << >>)
    \o Flatten([i \in 1..Len(topics) |->
         LET topic_clean == Escape(topics[i])
         IN  << MergeNode("Topic", topic_clean,
                          [display_name |-> Title(Replace(topic_clean, "-", <<" ">>))],
                          << >>),
                MergeRel("HAS_TOPIC", "Repository", repo_full_name,
                         "Topic", topic_clean) >>])
    \o Flatten([i \in 1..Len(frameworks) |->
         LET fw_name == Escape(frameworks[i][1])
             fw_lang == Escape(frameworks[i][2])
         IN  << MergeNode("Framework", fw_name,
                          [language |-> fw_lang, category |-> Lit.web], << >>),
                MergeRel("USES_FRAMEWORK", "Repository", repo_full_name,
                         "Framework", fw_name) >>])
    \o Flatten([i \in 1..Len(dependencies) |->
         LET dep_clean == Escape(dependencies[i][1])
             dep_lang_clean == Escape(dependencies[i][2])
         IN  << MergeNode("Dependency", dep_clean,
                          [language |-> dep_lang_clean, type |-> Lit.library], << >>),
                MergeRel("DEPENDS_ON", "Repository", repo_full_name,
                         "Dependency", dep_clean) >>])
    \o << MergeNode("Contributor", contributor_id,
                    [user_login |-> owner_login, repo_full_name |-> repo_full_name,
                     role |-> Lit.owner],
                    [contributions |-> repo.stargazers_count]),
          MergeRel("CONTRIBUTES_TO", "Contributor", contributor_id,
                   "Repository", repo_full_name),
          MergeRel("HAS_CONTRIBUTOR", owner_label, owner_login,
                   "Contributor", contributor_id) >>

(***************************************************************************)
(* The document store (MongoDB).  A collection is the sequence of its      *)
(* documents in insertion order.                                           *)
(***************************************************************************)
\* the n-th ObjectId the store generates for a document inserted without _id
ObjectId(n) == <<"<ObjectId>">> \o [i \in 1..n |-> "#"]

\* collection.replace_one({'_id': doc['_id']}, doc, upsert=True)
ReplaceOneUpsert(coll, doc) ==
  LET m == {i \in 1..Len(coll) : coll[i]._id = doc._id}
  IN  IF m = {} THEN Append(coll, doc)
      ELSE LET first == CHOOSE i \in m : \A j \in m : i <= j
           IN  [coll EXCEPT ![first] = doc]

\* collection.update_one({field: value}, {'$set': set}, upsert=True); oid is
\* the ObjectId the store gives the document when it inserts one
UpdateOneUpsert(coll, field, value, set, oid) ==
  LET m == {i \in 1..Len(coll) : field \in DOMAIN coll[i] /\ coll[i][field] = value}
  IN  IF m = {}
      THEN Append(coll, MergeRec(MergeRec([_id |-> oid], [f \in {field} |-> value]), set))
      ELSE LET first == CHOOSE i \in m : \A j \in m : i <= j
           IN  [coll EXCEPT ![first] = MergeRec(@, set)]

\* MongoDoc with updated_at taken from the clock instead of the record
MongoDoc_stamped(repo, country, time) ==
  [ _id |-> Replace(repo.full_name, "/", <<"_">>),
    name |-> repo.name,
    full_name |-> repo.full_name,
    stars |-> repo.stargazers_count,
    forks |-> repo.forks_count,
    watchers |-> repo.watchers_count,
    language |-> repo.language,
    topics |-> repo.topics,
    frameworks |-> LET fws == _detect_frameworks(repo)
                   IN  [i \in 1..Len(fws) |-> fws[i][1]],
    location |-> IF Truthy(country) THEN country ELSE Lit.Global,
    owner_login |-> repo.owner.login,
    owner_type |-> repo.owner.type,
    description |-> repo.description,
    updated_at |-> time,
    collected_at |-> time ]

\* the document store_repo builds (lines 362-384); collected_at is the time
\* of the call
MongoDoc(repo, country, time) ==
  [ _id |-> Replace(repo.full_name, "/", <<"_">>),
    name |-> repo.name,
    full_name |-> repo.full_name,
    stars |-> repo.stargazers_count,
    forks |-> repo.forks_count,
    watchers |-> repo.watchers_count,
    language |-> repo.language,
    topics |-> repo.topics,
    frameworks |-> LET fws == _detect_frameworks(repo)
                   IN  [i \in 1..Len(fws) |-> fws[i][1]],
    location |-> IF Truthy(country) THEN country ELSE Lit.Global,
    owner_login |-> repo.owner.login,
    owner_type |-> repo.owner.type,
    description |-> repo.description,
    collected_at |-> time ]

(***************************************************************************)
(* The cache store (Dragonfly, through redis-py).  The store maps a key to *)
(* a sorted set (member -> score) or a hash (field -> value).              *)
(***************************************************************************)
\* s sorts before t, in the bytewise order of the characters of the data
RECURSIVE LexLess(_, _)
LexLess(s, t) ==
  IF t = << >> THEN FALSE
  ELSE IF s = << >> THEN TRUE
  ELSE IF Head(s) = Head(t) THEN LexLess(Tail(s), Tail(t))
  ELSE IndexIn(Head(s), AsciiChars) < IndexIn(Head(t), AsciiChars)

EmptyMap == [m \in {} |-> 0]

Get(db, key) == IF key \in DOMAIN db THEN db[key] ELSE EmptyMap

Put(db, key, value) ==
  [k \in DOMAIN db \cup {key} |-> IF k = key THEN value ELSE db[k]]

MapPut(map, member, value) ==
  [m \in DOMAIN map \cup {member} |-> IF m = member THEN value ELSE map[m]]

\* MapGet of a store that forgets the value it holds: an increment then
\* replaces the counter
MapGet_absent(map, member) == 0

MapGet(map, member) == IF member \in DOMAIN map THEN map[member] ELSE 0

ZAdd(key, member, score) ==
  [cmd |-> "zadd", key |-> key, member |-> member, n |-> score]

\* HIncrBy as a client that sets the counter to its own increment
HIncrBy_set(key, field, n) ==
  [cmd |-> "zadd", key |-> key, member |-> field, n |-> n]

HIncrBy(key, field, n) ==
  [cmd |-> "hincrby", key |-> key, member |-> field, n |-> n]

ZIncrBy(key, n, member) ==
  [cmd |-> "zincrby", key |-> key, member |-> member, n |-> n]

HSet(key, mapping) == [cmd |-> "hset", key |-> key, mapping |-> mapping]

Expire(key, seconds) == [cmd |-> "expire", key |-> key, n |-> seconds]

\* ZRemRangeByRank turned round: the ranks from the other end
ZRemRangeByRank_newest(key, start, stop) ==
  [cmd |-> "zremrangebyrank", key |-> key, start |-> 0 - stop - 1, stop |-> 0 - start - 1]

ZRemRangeByRank(key, start, stop) ==
  [cmd |-> "zremrangebyrank", key |-> key, start |-> start, stop |-> stop]

\* redis-py refuses a None value before it sends the command (DataError)
CommandOK(c) ==
  c.cmd = "hset" => \A f \in DOMAIN c.mapping : c.mapping[f] # None

\* the rank of a member of a sorted set: by score, then by member
Rank(zset, member) ==
  Cardinality({m \in DOMAIN zset :
                 \/ zset[m] < zset[member]
                 \/ (zset[m] = zset[member] /\ LexLess(m, member))})

\* ZREMRANGEBYRANK key start stop; a negative index counts from the end
RemRangeByRank(zset, start, stop) ==
  LET n == Cardinality(DOMAIN zset)
      lo == IF start < 0 THEN (IF n + start < 0 THEN 0 ELSE n + start) ELSE start
      hi == IF stop < 0 THEN n + stop ELSE stop
      gone == {m \in DOMAIN zset : Rank(zset, m) >= lo /\ Rank(zset, m) <= hi}
  IN  [m \in DOMAIN zset \ gone |-> zset[m]]

\* one command on the cache c = [data, ttl] at time `time`
ExecCommand(c, q, time) ==
  IF q.cmd = "zadd"
  THEN [c EXCEPT !.data = Put(@, q.key, MapPut(Get(@, q.key), q.member, q.n))]
  ELSE IF q.cmd \in {"hincrby", "zincrby"}
  THEN [c EXCEPT !.data =
          Put(@, q.key, MapPut(Get(@, q.key), q.member, MapGet(Get(@, q.key), q.member) + q.n))]
  ELSE IF q.cmd = "hset"
  THEN [c EXCEPT !.data = Put(@, q.key, MergeRec(Get(@, q.key), q.mapping))]
  ELSE IF q.cmd = "expire"
  THEN IF q.key \in DOMAIN c.data
       THEN [c EXCEPT !.ttl = Put(@, q.key, time + q.n)] ELSE c
  ELSE \* zremrangebyrank; a sorted set left empty is deleted
       IF q.key \in DOMAIN c.data
       THEN LET z == RemRangeByRank(c.data[q.key], q.start, q.stop)
            IN  IF DOMAIN z = {}
                THEN [data |-> [k \in DOMAIN c.data \ {q.key} |-> c.data[k]],
                      ttl |-> [k \in DOMAIN c.ttl \ {q.key} |-> c.ttl[k]]]
                ELSE [c EXCEPT !.data = Put(@, q.key, z)]
       ELSE c

\* The commands of qs run in order until one raises: the first that redis-py
\* refuses, or the one after `limit` commands when the store fails there
\* (limit = -1: the store does not fail).  [c, raised]
RECURSIVE RunCommands(_, _, _, _)
RunCommands(c, qs, limit, time) ==
  IF qs = << >> THEN [c |-> c, raised |-> FALSE]
  ELSE IF limit = 0 \/ ~CommandOK(Head(qs)) THEN [c |-> c, raised |-> TRUE]
  ELSE RunCommands(ExecCommand(c, Head(qs), time), Tail(qs),
                   IF limit > 0 THEN limit - 1 ELSE limit, time)

\* how many members 'recent:repos' keeps (line 448: ranks 0..-101 are removed)
RecentKept == 100

\* the lifetime of a repo:<full_name> snapshot, in seconds (line 431)
RepoCacheTTL == 3600

\* the commands of store_repo's cache part, in the order the code sends them
CacheCommands(repo, country, time) ==
  LET full_name == repo.full_name
      stars == repo.stargazers_count
      owner_login == Escape(repo.owner.login)
      owner_key == CacheKey.owner \o owner_login \o CacheKey.stats
      topics == Take(repo.topics, 5)
      frameworks == _detect_frameworks(repo)
      repo_cache_key == CacheKey.repo \o full_name
  IN
    << ZAdd(CacheKey.leaderboard_global_stars, full_name, stars),
       ZAdd(CacheKey.leaderboard_global_forks, full_name, repo.forks_count) >>
    \o (IF Truthy(repo.language)
        THEN << ZAdd(CacheKey.leaderboard_language \o repo.language, full_name, stars) >>
        ELSE << >>)
    \o << HIncrBy(owner_key, HashField.total_repos, 1),
          HIncrBy(owner_key, HashField.total_stars, stars),
          HIncrBy(owner_key, HashField.total_forks, repo.forks_count) >>
    \o (IF Truthy(repo.language)
        THEN << HIncrBy(CacheKey.stats_languages, repo.language, 1),
                ZIncrBy(CacheKey.trending_languages, 1, repo.language) >>
        ELSE << >>)
    \o [i \in 1..Len(topics) |-> ZIncrBy(CacheKey.trending_topics, 1, topics[i])]
    \o [i \in 1..Len(frameworks) |-> ZIncrBy(CacheKey.trending_frameworks, 1, frameworks[i][1])]
    \o << HSet(repo_cache_key,
               [f \in {HashField.name, HashField.stars, HashField.forks, HashField.language, HashField.owner} |->
                  IF f = HashField.name THEN repo.name
                  ELSE IF f = HashField.stars THEN DecStr(stars)
                  ELSE IF f = HashField.forks THEN DecStr(repo.forks_count)
                  ELSE IF f = HashField.language THEN repo.language
                  ELSE owner_login]),
          Expire(repo_cache_key, RepoCacheTTL) >>
    \o (IF Truthy(country)
        THEN << ZAdd(CacheKey.leaderboard_location \o country, full_name, stars),
                HIncrBy(CacheKey.stats_location \o country, HashField.total_repos, 1),
                HIncrBy(CacheKey.stats_location \o country, HashField.total_stars, stars) >>
             \o (IF Truthy(repo.language)
                 THEN << ZIncrBy(CacheKey.location \o country \o CacheKey.languages, 1, repo.language) >>
                 ELSE << >>)
        ELSE << >>)
    \o << ZAdd(CacheKey.recent_repos, full_name, time),
          ZRemRangeByRank(CacheKey.recent_repos, 0, 0 - (RecentKept + 1)) >>

(***************************************************************************)
(* search_repositories (utils.py, lines 13-63).  One step per page         *)
(* request.  A response is what requests.get and the lines that read it    *)
(* come to:                                                                *)
(*   [kind |-> "ok", items |-> ...]   a JSON body with these items,        *)
(*   [kind |-> "request_error"]       a RequestException (line 59),        *)
(*   [kind |-> "error"]               any other exception of lines 41-50   *)
(*                                    (a body that is no object, a header  *)
(*                                    that is no number): it leaves the    *)
(*                                    function.                            *)
(***************************************************************************)
per_page == 100

pages_needed(total_repos) == (total_repos + per_page - 1) \div per_page

\* requests, got and failed observe the call: the pages it asked for, the items
\* of each response it read, and the page whose request failed (0: none)
FetchIdle ==
  [pc |-> "idle", total_repos |-> 0, page |-> 0, all_repos |-> << >>,
   requests |-> << >>, got |-> << >>, failed |-> 0, result |-> << >>]

\* return all_repos, not cut to the target count
FetchReturn_untruncated(f) == [f EXCEPT !.pc = "returned", !.result = f.all_repos]

\* return all_repos[:total_repos]
FetchReturn(f) == [f EXCEPT !.pc = "returned", !.result = Take(f.all_repos, f.total_repos)]

\* the call, up to its first page request
search_repositories(total_repos) ==
  LET f == [FetchIdle EXCEPT !.pc = "paging", !.total_repos = total_repos, !.page = 1]
  IN  IF pages_needed(total_repos) < 1 THEN FetchReturn(f) ELSE f

\* search_page with a handler that gives up what the earlier pages brought
search_page_all_or_nothing(f, response) ==
  LET asked == [f EXCEPT !.requests = Append(@, f.page)]
  IN  IF response.kind = "request_error"
      THEN FetchReturn([asked EXCEPT !.failed = f.page, !.all_repos = << >>])
      ELSE IF response.kind = "error" THEN [asked EXCEPT !.pc = "raised"]
      ELSE LET got == [asked EXCEPT !.all_repos = @ \o response.items,
                                    !.got = Append(@, response.items)]
           IN  IF Len(got.all_repos) >= f.total_repos THEN FetchReturn(got)
               ELSE IF f.page + 1 > pages_needed(f.total_repos) THEN FetchReturn(got)
               ELSE [got EXCEPT !.page = @ + 1]

\* search_page without the break of lines 54-55: every page up to
\* pages_needed is requested
search_page_unbroken(f, response) ==
  LET asked == [f EXCEPT !.requests = Append(@, f.page)]
  IN  IF response.kind = "request_error" THEN FetchReturn([asked EXCEPT !.failed = f.page])
      ELSE IF response.kind = "error" THEN [asked EXCEPT !.pc = "raised"]
      ELSE LET got == [asked EXCEPT !.all_repos = @ \o response.items,
                                    !.got = Append(@, response.items)]
           IN  IF f.page + 1 > pages_needed(f.total_repos) THEN FetchReturn(got)
               ELSE [got EXCEPT !.page = @ + 1]

\* one turn of the loop of line 30: the request of page f.page and its response
search_page(f, response) ==
  LET asked == [f EXCEPT !.requests = Append(@, f.page)]
  IN  IF response.kind = "request_error" THEN FetchReturn([asked EXCEPT !.failed = f.page])
      ELSE IF response.kind = "error" THEN [asked EXCEPT !.pc = "raised"]
      ELSE LET got == [asked EXCEPT !.all_repos = @ \o response.items,
                                    !.got = Append(@, response.items)]
           IN  IF Len(got.all_repos) >= f.total_repos THEN FetchReturn(got)
               ELSE IF f.page + 1 > pages_needed(f.total_repos) THEN FetchReturn(got)
               ELSE [got EXCEPT !.page = @ + 1]

(***************************************************************************)
(* Configuration (config.py).                                              *)
(***************************************************************************)
\* config.LANGUAGES
LANGUAGES == << <<"p","y","t","h","o","n">>, <<"g","o">> >>

\* config.REPOS_PER_LANGUAGE
REPOS_PER_LANGUAGE == 2

(***************************************************************************)
(* State.                                                                  *)
(***************************************************************************)
VARIABLES
  mg,         \* the graph store: [nodes, rels]
  mongodb,    \* the document store: [repositories, user_profiles, owners,
              \* languages, locations, topics, frameworks]
  oids,       \* how many ObjectIds the document store has generated
  dragonfly,  \* the cache store: [data, ttl]
  postgres,   \* the relational store: [owners, repositories], rows by id
  now,        \* the clock: datetime.now() and time.time()
  calls,      \* the calls of store_repo and store_user_data so far, in order:
              \* what each was given, which stores it got to, where it raised
  fetch,      \* the running call of search_repositories
  driver,     \* the running call of collect_all
  aggregator, \* the running call of aggregate_all
  runs,       \* two ingestion runs side by side: what each has still to do
  api         \* the requests the API has answered so far, in order

stores == <<mg, mongodb, oids, dragonfly, postgres, now, calls>>

InitStores ==
  /\ mg = [nodes |-> << >>, rels |-> << >>]
  /\ mongodb = [repositories |-> << >>, user_profiles |-> << >>, owners |-> << >>,
                languages |-> << >>, locations |-> << >>, topics |-> << >>,
                frameworks |-> << >>]
  /\ oids = 0
  /\ dragonfly = [data |-> EmptyMap, ttl |-> EmptyMap]
  /\ postgres = [owners |-> EmptyMap, repositories |-> EmptyMap]
  /\ now = 1
  /\ calls = << >>

(***************************************************************************)
(* store_repo (collect_repos.py, lines 152-451).  The whole body is one    *)
(* try block: the graph queries, then the document, then the cache        *)
(* commands; the handler of line 450 prints and returns.                   *)
(*                                                                         *)
(* fault = [store, after] says where a store fails in this call: store is  *)
(* "none", or the store whose client raises after `after` of its commands  *)
(* went through.                                                           *)
(***************************************************************************)
NoFault == [store |-> "none", after |-> 0]

Faults ==
  { NoFault,
    [store |-> "graph", after |-> 2],
    [store |-> "mongo", after |-> 0],
    [store |-> "cache", after |-> 3] }

Limit(fault, store) == IF fault.store = store THEN fault.after ELSE 0 - 1

\* The queries, the document and the commands of a call depend on the record,
\* the filter and the time only: they are computed once for each.
Times == 1..(Max(MaxWrites, Len(LANGUAGES) * (REPOS_PER_LANGUAGE + 1)) + 1)

GraphQueryTable == [repo \in Repos, country \in Countries |-> GraphQueries(repo, country)]

MongoDocTable ==
  [repo \in Repos, country \in Countries, time \in Times |-> MongoDoc(repo, country, time)]

CacheCommandTable ==
  [repo \in Repos, country \in Countries, time \in Times |->
     CacheCommands(repo, country, time)]

\* the queries, the document and the commands of a call: from the tables
\* where they hold them
CallData(repo, country, time) ==
  IF repo \in Repos /\ country \in Countries /\ time \in Times
  THEN [queries |-> GraphQueryTable[repo, country],
        doc |-> MongoDocTable[repo, country, time],
        commands |-> CacheCommandTable[repo, country, time]]
  ELSE [queries |-> GraphQueries(repo, country),
        doc |-> MongoDoc(repo, country, time),
        commands |-> CacheCommands(repo, country, time)]

\* What one call does to the stores, and how far it gets.
StoreRepoRun(g0, m0, c0, repo, country, fault, time) ==
  LET data == CallData(repo, country, time)
      g == RunQueries(g0, data.queries, Limit(fault, "graph"))
      doc == data.doc
      mongo_raised == fault.store = "mongo"
      c == RunCommands(c0, data.commands, Limit(fault, "cache"), time)
  IN  IF g.raised
      THEN [mg |-> g.g, mongodb |-> m0, dragonfly |-> c0,
            attempted |-> {"graph"}, raised |-> "graph"]
      ELSE IF mongo_raised
      THEN [mg |-> g.g, mongodb |-> m0, dragonfly |-> c0,
            attempted |-> {"graph", "mongo"}, raised |-> "mongo"]
      ELSE [mg |-> g.g,
            mongodb |-> [m0 EXCEPT !.repositories = ReplaceOneUpsert(@, doc)],
            dragonfly |-> c.c,
            attempted |-> {"graph", "mongo", "cache"},
            raised |-> IF c.raised THEN "cache" ELSE "none"]

\* the documents of a collection whose field has the value
Find(coll, field, value) ==
  {i \in 1..Len(coll) : field \in DOMAIN coll[i] /\ coll[i][field] = value}

store_repo(repo, country, fault) ==
  \E run \in {StoreRepoRun(mg, mongodb, dragonfly, repo, country, fault, now)} :
  LET id == CallData(repo, country, now).doc._id
  IN  /\ mg' = run.mg
      /\ mongodb' = run.mongodb
      /\ dragonfly' = run.dragonfly
      /\ now' = now + 1
      /\ calls' = Append(calls,
           [op |-> "store_repo", repo |-> repo, country |-> country,
            attempted |-> run.attempted, raised |-> run.raised,
            \* the document found under the key after a write that went through
            stored |-> IF "cache" \in run.attempted
                       THEN {run.mongodb.repositories[i] :
                               i \in Find(run.mongodb.repositories, "_id", id)}
                       ELSE {},
            nodes_added |-> Len(run.mg.nodes) - Len(mg.nodes),
            rels_added |-> Len(run.mg.rels) - Len(mg.rels)])
      /\ UNCHANGED <<oids, postgres>>

(***************************************************************************)
(* store_user_data (collect_user_profile.py, lines 122-334), with the      *)
(* profile collect_user_profile builds from the user's repositories        *)
(* (lines 89-113).                                                         *)
(***************************************************************************)
RECURSIVE Sum(_, _)
Sum(seq, field) ==
  IF seq = << >> THEN 0 ELSE Head(seq)[field] + Sum(Tail(seq), field)

\* The profile.  'languages' is list(set(...)): the model keeps the set, the
\* order of the list being that of a Python set.
UserProfile(username, repos) ==
  [ login |-> username,
    type |-> Lit.User,
    total_repos |-> Len(repos),
    total_stars |-> Sum(repos, "stargazers_count"),
    total_forks |-> Sum(repos, "forks_count"),
    languages |-> {repos[i].language : i \in {j \in 1..Len(repos) : Truthy(repos[j].language)}} ]

\* repo_data of lines 140-161
UserRepoData(repo) ==
  [ id |-> repo.owner.login \o <<"_">> \o repo.name,
    name |-> repo.name,
    full_name |-> repo.full_name,
    owner_login |-> repo.owner.login,
    owner_type |-> Lit.User,
    description |-> repo.description,
    language |-> repo.language,
    stars |-> repo.stargazers_count,
    forks |-> repo.forks_count,
    watchers |-> repo.watchers_count,
    topics |-> repo.topics ]

\* the owners row of lines 170-183 and 272-291
UserOwnerRow(profile, repos) ==
  [ login |-> profile.login,
    type |-> Lit.User,
    total_repos |-> profile.total_repos,
    total_stars |-> profile.total_stars,
    total_forks |-> profile.total_forks,
    \* a / b as the pair of its numerator and denominator
    avg_stars |-> <<profile.total_stars, Max(profile.total_repos, 1)>>,
    repos |-> LET first == Take(repos, 20) IN [i \in 1..Len(first) |-> first[i].name],
    languages |-> profile.languages ]

\* lines 139-167: one update_one per repository, each with a fresh ObjectId
\* at hand should it insert
RECURSIVE UpsertUserRepos(_, _, _)
UpsertUserRepos(coll, repos, oid) ==
  IF repos = << >> THEN coll
  ELSE LET data == UserRepoData(Head(repos))
       IN  UpsertUserRepos(UpdateOneUpsert(coll, "id", data.id, data, ObjectId(oid + 1)),
                           Tail(repos), oid + 1)

\* the queries of lines 190-254, in the order the code sends them; the login
\* and the full_name go into the query text as they are
UserGraphQueries(profile, repos) ==
  << MergeNode("User", profile.login, [type |-> Lit.User],
               [total_repos |-> profile.total_repos,
                total_stars |-> profile.total_stars,
                total_forks |-> profile.total_forks]) >>
  \o Flatten([i \in 1..Len(repos) |->
       LET repo == repos[i]
           repo_name == Escape(repo.name)
           repo_desc == IF Truthy(repo.description) THEN Escape(repo.description) ELSE << >>
           language == repo.language
           topics == Take(repo.topics, 10)
       IN  << MergeNode("Repository", repo.full_name,
                        [name |-> repo_name, description |-> repo_desc,
                         language |-> Str(language)],
                        [stars |-> repo.stargazers_count, forks |-> repo.forks_count,
                         watchers |-> repo.watchers_count]),
              MergeRel("OWNS", "User", profile.login, "Repository", repo.full_name) >>
           \o (IF Truthy(language) /\ language # Lit.Unknown
               THEN << MergeNode("Language", language, << >>, << >>),
                       MergeRel("USES", "Repository", repo.full_name, "Language", language) >>
               ELSE << >>)
           \o Flatten([t \in 1..Len(topics) |->
                LET topic_clean == Escape(topics[t])
                IN  << MergeNode("Topic", topic_clean, << >>, << >>),
                       MergeRel("HAS_TOPIC", "Repository", repo.full_name,
                                "Topic", topic_clean) >>])])

\* INSERT ... ON CONFLICT (id) DO UPDATE SET <fields> = EXCLUDED.<fields>
InsertOnConflict(table, id, row, fields) ==
  IF id \in DOMAIN table
  THEN [table EXCEPT ![id] = [f \in DOMAIN @ |-> IF f \in fields THEN row[f] ELSE @[f]]]
  ELSE MapPut(table, id, row)

RECURSIVE InsertUserRepos(_, _)
InsertUserRepos(table, repos) ==
  IF repos = << >> THEN table
  ELSE LET row == UserRepoData(Head(repos))
       IN  InsertUserRepos(InsertOnConflict(table, row.id, row, {"stars", "forks"}),
                           Tail(repos))

\* The relational part (lines 261-330) is one transaction: it commits whole
\* or, when it raises, not at all.
UserPostgres(pg, profile, repos) ==
  LET row == MergeRec([id |-> profile.login], UserOwnerRow(profile, repos))
  IN  [owners |-> InsertOnConflict(pg.owners, profile.login, row,
                    {"total_repos", "total_stars", "total_forks", "avg_stars",
                     "repos", "languages"}),
       repositories |-> InsertUserRepos(pg.repositories, repos)]

store_user_data(repos, fault) ==
  LET profile == UserProfile(repos[1].owner.login, repos)
      g == RunQueries(mg, UserGraphQueries(profile, repos),
                      IF fault = "graph" THEN 1 ELSE 0 - 1)
  IN  /\ mongodb' =
           [mongodb EXCEPT
              !.user_profiles =
                UpdateOneUpsert(@, "login", profile.login, profile,
                                ObjectId(oids + Len(repos) + 1)),
              !.repositories = UpsertUserRepos(@, repos, oids),
              !.owners =
                UpdateOneUpsert(@, "login", profile.login, UserOwnerRow(profile, repos),
                                ObjectId(oids + Len(repos) + 2))]
      /\ oids' = oids + Len(repos) + 2
      /\ mg' = g.g
      /\ postgres' = IF fault = "postgres" THEN postgres
                     ELSE UserPostgres(postgres, profile, repos)
      /\ now' = now + 1
      /\ calls' = Append(calls, [op |-> "store_user_data", repos |-> repos])
      /\ UNCHANGED dragonfly

(***************************************************************************)
(* The aggregation passes (aggregate_data.py).  Each reads the             *)
(* repositories collection in its natural order, groups the documents by   *)
(* a key in a dict - whose order is that of first encounter - and          *)
(* replace_one's one row per key.  list(set) keeps the set: the order of   *)
(* such a list is that of a Python set.  An average is kept in hundredths. *)
(***************************************************************************)
\* doc.get(field, default)
DocGet(doc, field, default) == IF field \in DOMAIN doc THEN doc[field] ELSE default

\* the distinct elements of a sequence, in the order of their first occurrence
RECURSIVE Encounter(_)
Encounter(seq) ==
  IF seq = << >> THEN << >>
  ELSE LET init == Encounter(SubSeq(seq, 1, Len(seq) - 1))
           x == seq[Len(seq)]
       IN  IF \E i \in 1..Len(init) : init[i] = x THEN init ELSE Append(init, x)

\* round(a / b, 2), in hundredths.  A quotient that lies halfway between two
\* hundredths goes to the even one; Python decides such a case on the binary
\* value of the quotient, and no count below 8 produces one.
Round2(a, b) ==
  LET q == (100 * a) \div b
      r == (100 * a) % b
  IN  IF 2 * r < b THEN q
      ELSE IF 2 * r > b THEN q + 1
      ELSE IF q % 2 = 0 THEN q ELSE q + 1

\* the truthy languages of the documents, as a set
LanguageSet(members) ==
  {members[i].language :
     i \in {j \in 1..Len(members) : Truthy(DocGet(members[j], "language", None))}}

\* the owners of the documents, as a set
OwnerSet(members) == {members[i].owner_login : i \in 1..Len(members)}

RECURSIVE UpsertRows(_, _)
UpsertRows(coll, rows) ==
  IF rows = << >> THEN coll
  ELSE UpsertRows(ReplaceOneUpsert(coll, Head(rows)), Tail(rows))

\* Groups with a document going under the first element of a list only
Groups_first_only(repos, field, default, each) ==
  LET pairs == Flatten([i \in 1..Len(repos) |->
                 LET v == DocGet(repos[i], field, default)
                     ks == IF each THEN Take(v, 1) ELSE <<v>>
                 IN  [j \in 1..Len(ks) |-> [key |-> ks[j], repo |-> repos[i]]]])
      names == Encounter([i \in 1..Len(pairs) |-> pairs[i].key])
      members(name) == LET hit == SelectSeq(pairs, LAMBDA p : p.key = name)
                       IN  [i \in 1..Len(hit) |-> hit[i].repo]
  IN  [i \in 1..Len(names) |-> [key |-> names[i], members |-> members(names[i])]]

\* The dict a pass groups the documents in: one entry per key, in the order
\* the keys are first met, with the documents under it in scan order.  A
\* document goes under the value of its field, or under each element of it
\* when the field is a list (each: topics, frameworks).
Groups(repos, field, default, each) ==
  LET pairs == Flatten([i \in 1..Len(repos) |->
                 LET v == DocGet(repos[i], field, default)
                     ks == IF each THEN v ELSE <<v>>
                 IN  [j \in 1..Len(ks) |-> [key |-> ks[j], repo |-> repos[i]]]])
      names == Encounter([i \in 1..Len(pairs) |-> pairs[i].key])
      members(name) == LET hit == SelectSeq(pairs, LAMBDA p : p.key = name)
                       IN  [i \in 1..Len(hit) |-> hit[i].repo]
  IN  [i \in 1..Len(names) |-> [key |-> names[i], members |-> members(names[i])]]

aggregate_owners(m) ==
  [m EXCEPT !.owners =
     LET groups == Groups(m.repositories, "owner_login", None, FALSE)
     IN  UpsertRows(@, [g \in 1..Len(groups) |->
       LET login == groups[g].key
           members == groups[g].members
       IN
         [_id |-> login,
          login |-> login,
          total_repos |-> Len(members),
          total_stars |-> Sum(members, "stars"),
          total_forks |-> Sum(members, "forks"),
          repos |-> [i \in 1..Len(members) |-> members[i].name],
          languages |-> LanguageSet(members)]])]

aggregate_languages(m) ==
  [m EXCEPT !.languages =
     LET groups == Groups(m.repositories, "language", Lit.Unknown, FALSE)
     IN  UpsertRows(@, [g \in 1..Len(groups) |->
       LET name == groups[g].key
           members == groups[g].members
       IN
         [_id |-> name,
          name |-> name,
          total_repos |-> Len(members),
          total_stars |-> Sum(members, "stars"),
          total_forks |-> Sum(members, "forks"),
          avg_stars |-> Round2(Sum(members, "stars"), Len(members)),
          unique_owners |-> Cardinality(OwnerSet(members))]])]

\* top_langs with sorted() putting the later of two equal counts first
top_langs_unstable(members) ==
  LET langs == Encounter(SelectSeq([i \in 1..Len(members) |->
                                      DocGet(members[i], "language", None)], Truthy))
      count(l) == Cardinality({i \in 1..Len(members) :
                                 DocGet(members[i], "language", None) = l})
      before(i) == Cardinality({j \in 1..Len(langs) :
                     \/ count(langs[j]) > count(langs[i])
                     \/ (count(langs[j]) = count(langs[i]) /\ j > i)})
  IN  Take([k \in 1..Len(langs) |-> langs[CHOOSE i \in 1..Len(langs) : before(i) = k - 1]], 3)

\* lines 129-130, 135 and 145: the languages of a location counted in a dict,
\* sorted by count with reverse=True - a stable sort: equal counts stay in
\* the order of the dict - and cut to 3
top_langs(members) ==
  LET langs == Encounter(SelectSeq([i \in 1..Len(members) |->
                                      DocGet(members[i], "language", None)], Truthy))
      count(l) == Cardinality({i \in 1..Len(members) :
                                 DocGet(members[i], "language", None) = l})
      before(i) == Cardinality({j \in 1..Len(langs) :
                     \/ count(langs[j]) > count(langs[i])
                     \/ (count(langs[j]) = count(langs[i]) /\ j < i)})
  IN  Take([k \in 1..Len(langs) |-> langs[CHOOSE i \in 1..Len(langs) : before(i) = k - 1]], 3)

aggregate_locations(m) ==
  [m EXCEPT !.locations =
     LET groups == Groups(m.repositories, "location", Lit.Global, FALSE)
     IN  UpsertRows(@, [g \in 1..Len(groups) |->
       LET name == groups[g].key
           members == groups[g].members
       IN
         [_id |-> name,
          name |-> name,
          total_repos |-> Len(members),
          total_stars |-> Sum(members, "stars"),
          avg_stars |-> Round2(Sum(members, "stars"), Len(members)),
          top_languages |-> top_langs(members),
          unique_owners |-> Cardinality(OwnerSet(members))]])]

\* aggregate_topics rebuilding its collection: the rows of this run only
aggregate_topics_pruning(m) ==
  [m EXCEPT !.topics =
     LET groups == Groups(m.repositories, "topics", << >>, TRUE)
     IN  UpsertRows(<< >>, [g \in 1..Len(groups) |->
       LET name == groups[g].key
           members == groups[g].members
       IN
         [_id |-> name,
          name |-> name,
          total_repos |-> Len(members),
          total_stars |-> Sum(members, "stars"),
          related_languages |-> LanguageSet(members)]])]

aggregate_topics(m) ==
  [m EXCEPT !.topics =
     LET groups == Groups(m.repositories, "topics", << >>, TRUE)
     IN  UpsertRows(@, [g \in 1..Len(groups) |->
       LET name == groups[g].key
           members == groups[g].members
       IN
         [_id |-> name,
          name |-> name,
          total_repos |-> Len(members),
          total_stars |-> Sum(members, "stars"),
          related_languages |-> LanguageSet(members)]])]

\* the orders a Python set of the languages can be listed in
SetOrders == {<<Lit.Go, Lit.Python>>, <<Lit.Python, Lit.Go>>}

\* aggregate_frameworks taking each framework's language from the topics
\* collection: the first related language of the topic of its name
aggregate_frameworks_from_topics(m, order) ==
  [m EXCEPT !.frameworks =
     LET groups == Groups(m.repositories, "frameworks", << >>, TRUE)
     IN  UpsertRows(@, [g \in 1..Len(groups) |->
       LET name == groups[g].key
           members == groups[g].members
       IN
         LET rows == SelectSeq(m.topics, LAMBDA t : t._id = Lower(name))
             languages == IF rows = << >> THEN {} ELSE rows[1].related_languages
         IN  [_id |-> name,
              name |-> name,
              language |-> IF languages = {} THEN Lit.Unknown
                           ELSE order[CHOOSE i \in 1..Len(order) :
                                        /\ order[i] \in languages
                                        /\ \A j \in 1..(i - 1) : order[j] \notin languages],
              total_repos |-> Len(members),
              total_stars |-> Sum(members, "stars")]])]

\* order is the order list(data['languages']) comes in (line 211)
aggregate_frameworks(m, order) ==
  [m EXCEPT !.frameworks =
     LET groups == Groups(m.repositories, "frameworks", << >>, TRUE)
     IN  UpsertRows(@, [g \in 1..Len(groups) |->
       LET name == groups[g].key
           members == groups[g].members
       IN
         LET languages == LanguageSet(members)
         IN  [_id |-> name,
              name |-> name,
              language |-> IF languages = {} THEN Lit.Unknown
                           ELSE order[CHOOSE i \in 1..Len(order) :
                                        /\ order[i] \in languages
                                        /\ \A j \in 1..(i - 1) : order[j] \notin languages],
              total_repos |-> Len(members),
              total_stars |-> Sum(members, "stars")]])]

\* aggregate_all (lines 13-27) calls the five passes; the model lets a run
\* take them in any order.  done: the passes the run has made; start: the
\* document store the run began with; rerun: the run began where another
\* had ended, with no write in between.
Passes == {"owners", "languages", "locations", "topics", "frameworks"}

AggregatorIdle == [done |-> {}]

\* the aggregator after the run made this pass
Aggregated(pass) ==
  IF aggregator.done \in {{}, Passes}
  THEN [done |-> {pass}, start |-> mongodb, rerun |-> aggregator.done = Passes]
  ELSE [aggregator EXCEPT !.done = @ \cup {pass}]

\* one pass of a run: it writes the document store and nothing else
Pass(pass, result) ==
  /\ pass \notin aggregator.done \/ aggregator.done = Passes
  /\ mongodb' = result
  /\ aggregator' = Aggregated(pass)
  /\ UNCHANGED <<mg, oids, dragonfly, postgres, now, calls, fetch, driver, runs, api>>

(***************************************************************************)
(* sync_to_postgres.py: the script drops and creates the five tables and   *)
(* commits (lines 44-130), then reads each collection and inserts one row  *)
(* per document that has an id, and commits once after the last insert     *)
(* (line 279).  A table is a map from the primary key to the row.  Floats  *)
(* are in hundredths, as the aggregator's averages are.                    *)
(***************************************************************************)
\* doc.get('id') or <fallback>
SyncId(doc, fallback) ==
  LET id == DocGet(doc, "id", None) IN IF Truthy(id) THEN id ELSE fallback

\* the rows of lines 229-245
sync_topics(m) ==
  LET kept == SelectSeq(m.topics,
                LAMBDA topic : Truthy(SyncId(topic, DocGet(topic, "name", << >>))))
  IN  [i \in 1..Len(kept) |->
        [id |-> SyncId(kept[i], DocGet(kept[i], "name", << >>)),
         name |-> DocGet(kept[i], "name", << >>),
         repo_count |-> DocGet(kept[i], "repo_count", 0),
         total_stars |-> DocGet(kept[i], "total_stars", 0),
         avg_stars |-> DocGet(kept[i], "avg_stars", 0)]]

\* the rows of lines 256-272
sync_frameworks(m) ==
  LET kept == SelectSeq(m.frameworks,
                LAMBDA fw : Truthy(SyncId(fw, DocGet(fw, "name", << >>))))
  IN  [i \in 1..Len(kept) |->
        [id |-> SyncId(kept[i], DocGet(kept[i], "name", << >>)),
         name |-> DocGet(kept[i], "name", << >>),
         language |-> DocGet(kept[i], "language", << >>),
         repo_count |-> DocGet(kept[i], "repo_count", 0),
         total_stars |-> DocGet(kept[i], "total_stars", 0)]]

\* INSERT INTO <table> VALUES <rows> into an empty table: [table, raised];
\* two rows with one primary key raise
InsertValues(rows) ==
  IF \E i, j \in 1..Len(rows) : i < j /\ rows[i].id = rows[j].id
  THEN [table |-> EmptyMap, raised |-> TRUE]
  ELSE [table |-> [id \in {rows[i].id : i \in 1..Len(rows)} |->
                     rows[CHOOSE i \in 1..Len(rows) : rows[i].id = id]],
        raised |-> FALSE]

\* The tables the script leaves.  An insert that raises ends the script
\* before its commit: the five tables stay as created, empty.
sync_to_postgres(m) ==
  LET repos == SelectSeq(m.repositories,
                 LAMBDA repo : Truthy(SyncId(repo,
                   Replace(DocGet(repo, "full_name", << >>), "/", <<"_">>))))
      \* lines 135-163
      repo_data == [i \in 1..Len(repos) |->
        LET repo == repos[i]
        IN  [id |-> SyncId(repo, Replace(DocGet(repo, "full_name", << >>), "/", <<"_">>)),
             name |-> DocGet(repo, "name", << >>),
             full_name |-> DocGet(repo, "full_name", << >>),
             owner_login |-> DocGet(repo, "owner_login", << >>),
             owner_type |-> DocGet(repo, "owner_type", << >>),
             description |-> DocGet(repo, "description", << >>),
             language |-> DocGet(repo, "language", << >>),
             stars |-> DocGet(repo, "stars", 0),
             forks |-> DocGet(repo, "forks", 0),
             watchers |-> DocGet(repo, "watchers", 0),
             open_issues |-> DocGet(repo, "open_issues", 0),
             size_kb |-> DocGet(repo, "size", 0),
             created_at |-> DocGet(repo, "created_at", None),
             updated_at |-> DocGet(repo, "updated_at", None),
             pushed_at |-> DocGet(repo, "pushed_at", None),
             url |-> DocGet(repo, "url", << >>),
             homepage |-> DocGet(repo, "homepage", << >>),
             is_fork |-> DocGet(repo, "is_fork", FALSE),
             topics |-> Join(DocGet(repo, "topics", << >>), <<",">>),
             frameworks |-> Join(DocGet(repo, "frameworks", << >>), <<",">>),
             license |-> DocGet(repo, "license", << >>)]]
      owners == SelectSeq(m.owners,
                  LAMBDA owner : Truthy(SyncId(owner, DocGet(owner, "login", << >>))))
      \* lines 174-190; languages is the text that joins the elements of the
      \* list, kept as the elements
      owner_data == [i \in 1..Len(owners) |->
        LET owner == owners[i]
        IN  [id |-> SyncId(owner, DocGet(owner, "login", << >>)),
             login |-> DocGet(owner, "login", << >>),
             type |-> DocGet(owner, "type", << >>),
             total_repos |-> DocGet(owner, "total_repos", 0),
             total_stars |-> DocGet(owner, "total_stars", 0),
             total_forks |-> DocGet(owner, "total_forks", 0),
             avg_stars |-> DocGet(owner, "avg_stars", 0),
             repos |-> Join(DocGet(owner, "repos", << >>), <<",">>),
             languages |-> DocGet(owner, "languages", {})]]
      langs == SelectSeq(m.languages,
                 LAMBDA lang : Truthy(SyncId(lang, DocGet(lang, "name", << >>))))
      \* lines 201-216
      lang_data == [i \in 1..Len(langs) |->
        LET lang == langs[i]
        IN  [id |-> SyncId(lang, DocGet(lang, "name", << >>)),
             name |-> DocGet(lang, "name", << >>),
             total_repos |-> DocGet(lang, "total_repos", 0),
             total_stars |-> DocGet(lang, "total_stars", 0),
             avg_stars |-> DocGet(lang, "avg_stars", 0),
             total_forks |-> DocGet(lang, "total_forks", 0)]]
      inserted == [repositories |-> InsertValues(repo_data),
                   owners |-> InsertValues(owner_data),
                   languages |-> InsertValues(lang_data),
                   topics |-> InsertValues(sync_topics(m)),
                   frameworks |-> InsertValues(sync_frameworks(m))]
  IN  [t \in DOMAIN inserted |->
         IF \E u \in DOMAIN inserted : inserted[u].raised
         THEN EmptyMap ELSE inserted[t].table]

(***************************************************************************)
(* The API (api.py).  Its cache is the pipeline's cache store; a cached     *)
(* response is a string value under a key 'api:...' that expires.  The     *)
(* store answers a command at the time `time` of its clock; a key whose    *)
(* expiry has come is gone.                                                *)
(***************************************************************************)
\* f"api:{func.__name__}:{str(args)}:{str(kwargs)}" for a call by keyword, as
\* FastAPI makes it; kwargs is the list of <<name, repr of the value>>
ApiKey(name, kwargs) ==
  Lit.api \o name \o <<":", "(", ")", ":", "{">>
    \o Join([i \in 1..Len(kwargs) |->
               <<"'">> \o kwargs[i][1] \o <<"'", ":", " ">> \o kwargs[i][2]],
            <<",", " ">>)
    \o <<"}">>

\* json.dumps(result): the text that encodes the value.  The results here
\* are lists of objects of strings, integers, nulls and lists of these,
\* which json.loads reads back as they were.
JsonDumps(result) == <<"<json>", result>>

JsonLoads(text) == text[2]

\* GET with the get that ignores the expiry of the key
CacheGet_stale(c, key, time) ==
  IF key \in DOMAIN c.data THEN c.data[key] ELSE None

\* dragonfly.get(key): the value, or None for no key or an expired one
CacheGet(c, key, time) ==
  IF key \in DOMAIN c.data /\ (key \in DOMAIN c.ttl => time < c.ttl[key])
  THEN c.data[key] ELSE None

\* dragonfly.setex(key, ttl, value)
SetEx(c, key, ttl, value, time) ==
  [data |-> Put(c.data, key, value), ttl |-> Put(c.ttl, key, time + ttl)]

\* the ttl of @cache_response(ttl=300) on get_repos_by_location
LocationReposTTL == 300

\* the ttl of @cache_response(ttl=600) on get_languages
LanguagesTTL == 600

\* find({'location': location}).sort('stars', -1).limit(limit), each
\* document with its _id as a string (lines 128-138); documents of equal
\* stars stay in the order of the collection
get_repos_by_location(m, location, limit) ==
  LET hit == SelectSeq(m.repositories,
               LAMBDA repo : DocGet(repo, "location", None) = location)
      before(i) == Cardinality({j \in 1..Len(hit) :
                     \/ hit[j].stars > hit[i].stars
                     \/ (hit[j].stars = hit[i].stars /\ j < i)})
      sorted == [k \in 1..Len(hit) |-> hit[CHOOSE i \in 1..Len(hit) : before(i) = k - 1]]
      repos == Take(sorted, limit)
  IN  [i \in 1..Len(repos) |->
         [repos[i] EXCEPT !._id = IF Head(@) = "<ObjectId>" THEN Tail(@) ELSE @]]

\* MATCH (r:Repository)-[:USES]->(l:Language) RETURN l.name, count(r),
\* avg(r.stars) ORDER BY repos DESC (lines 142-151); the average is the pair
\* of the sum and the count; languages of equal counts come in node order
get_languages(g) ==
  LET users(l) == {r \in 1..Len(g.rels) :
                     /\ g.rels[r].type = "USES"
                     /\ g.rels[r].dst = l
                     /\ g.nodes[g.rels[r].src].label = "Repository"}
      langs == SelectSeq([n \in 1..Len(g.nodes) |-> n],
                 LAMBDA n : g.nodes[n].label = "Language" /\ users(n) # {})
      stars(l) == LET rs == SeqOfSet({<<r, 0>> : r \in users(l)})
                  IN  Sum([i \in 1..Len(rs) |-> g.nodes[g.rels[rs[i][1]].src].props], "stars")
      before(i) == Cardinality({j \in 1..Len(langs) :
                     \/ Cardinality(users(langs[j])) > Cardinality(users(langs[i]))
                     \/ /\ Cardinality(users(langs[j])) = Cardinality(users(langs[i]))
                        /\ j < i})
      sorted == [k \in 1..Len(langs) |->
                   langs[CHOOSE i \in 1..Len(langs) : before(i) = k - 1]]
  IN  [i \in 1..Len(sorted) |->
         [language |-> g.nodes[sorted[i]].key,
          repos |-> Cardinality(users(sorted[i])),
          avg_stars |-> <<stars(sorted[i]), Cardinality(users(sorted[i]))>>]]

\* wrapper (lines 32-53) around a function whose call would return `result`.
\* get_raises, set_raises: the store raises on the wrapper's get, setex.
\* [c, invoked, returned]
cache_response(c, cache_key, ttl, result, get_raises, set_raises, time) ==
  LET cached == IF get_raises THEN None ELSE CacheGet(c, cache_key, time)
  IN  IF cached # None
      THEN [c |-> c, invoked |-> 0, returned |-> JsonLoads(cached)]
      ELSE [c |-> IF set_raises THEN c
                  ELSE SetEx(c, cache_key, ttl, JsonDumps(result), time),
            invoked |-> 1, returned |-> result]

\* clear_cache deleting every key of the store
clear_cache_flush(c, raises, time) ==
  IF raises THEN [c |-> c, status |-> "error", cleared_keys |-> 0]
  ELSE [c |-> [data |-> EmptyMap, ttl |-> EmptyMap],
        status |-> "success", cleared_keys |-> Cardinality(DOMAIN c.data)]

\* clear_cache (lines 193-203): [c, status, cleared_keys]
clear_cache(c, raises, time) ==
  LET keys == {key \in DOMAIN c.data :
                 /\ StartsWith(key, Lit.api)
                 /\ key \in DOMAIN c.ttl => time < c.ttl[key]}
  IN  IF raises THEN [c |-> c, status |-> "error", cleared_keys |-> 0]
      ELSE [c |-> [data |-> [k \in DOMAIN c.data \ keys |-> c.data[k]],
                   ttl |-> [k \in DOMAIN c.ttl \ keys |-> c.ttl[k]]],
            status |-> "success", cleared_keys |-> Cardinality(keys)]

\* Of the API: n, the requests made; last, the latest request and what it
\* came to (result: what the endpoint's function returns on the stores as
\* they are); cleared, whether a clear_cache went through; dropped, the keys
\* the latest one deleted; since, the keys of the cached endpoints called
\* since.
ApiIdle == [n |-> 0, last |-> << >>, cleared |-> FALSE, dropped |-> {}, since |-> {}]

\* a request to a cached endpoint: the wrapper around the endpoint's function
Request(op, cache_key, ttl, result, fault) ==
  LET call == cache_response(dragonfly, cache_key, ttl, result,
                             fault = "get", fault = "setex", now)
  IN  /\ api.n < MaxRequests
      /\ dragonfly' = call.c
      /\ api' = [api EXCEPT
           !.n = @ + 1,
           !.since = @ \cup {cache_key},
           !.last = [op |-> op, key |-> cache_key, ttl |-> ttl, fault |-> fault,
                     result |-> result, invoked |-> call.invoked,
                     returned |-> call.returned]]
      /\ UNCHANGED <<mg, mongodb, oids, postgres, now, calls, fetch, driver, aggregator,
                     runs>>

(***************************************************************************)
(* collect_all (collect_repos.py, lines 101-150).                          *)
(***************************************************************************)
DriverIdle ==
  [pc |-> "idle", country |-> << >>, idx |-> 0, repos |-> << >>, repo_idx |-> 0,
   total_repos |-> 0, fetched |-> << >>, results |-> << >>, summary |-> {}]

\* the next turn of the loop of line 116, or the summary after the last
NextLanguage(d) == [d EXCEPT !.pc = "loop", !.idx = @ + 1, !.repos = << >>, !.repo_idx = 0]

\* lines 103-114
collect_start(country) ==
  [DriverIdle EXCEPT !.pc = "loop", !.country = country, !.idx = 1]

\* line 120: the call of search_repositories for language idx
collect_fetch(d) ==
  [d EXCEPT !.pc = "fetching", !.fetched = Append(@, LANGUAGES[d.idx])]

\* collect_fetched with the try around the loop: a fetch that raises ends it
collect_fetched_aborting(d, f) ==
  LET e == [d EXCEPT !.results =
              Append(@, [raised |-> f.pc = "raised",
                         repos |-> IF f.pc = "raised" THEN << >> ELSE f.result])]
  IN  IF f.pc = "raised" THEN [e EXCEPT !.pc = "loop", !.idx = Len(LANGUAGES) + 1]
      ELSE IF f.result = << >> THEN NextLanguage(e)
      ELSE [e EXCEPT !.pc = "storing", !.repos = f.result, !.repo_idx = 1]

\* lines 126-129 when the call returned, lines 138-140 when it raised;
\* results keeps what each call came to
collect_fetched(d, f) ==
  LET e == [d EXCEPT !.results =
              Append(@, [raised |-> f.pc = "raised",
                         repos |-> IF f.pc = "raised" THEN << >> ELSE f.result])]
  IN  IF f.pc = "raised" THEN NextLanguage(e)
      ELSE IF f.result = << >> THEN NextLanguage(e)
      ELSE [e EXCEPT !.pc = "storing", !.repos = f.result, !.repo_idx = 1]

\* collect_stored with a store_repo that lets its exception out: the try of
\* line 119 catches it and the language's remaining repositories are skipped
collect_stored_aborting(d) ==
  IF calls'[Len(calls')].raised # "none" THEN NextLanguage(d)
  ELSE LET counted == [d EXCEPT !.total_repos = @ + 1]
       IN  IF d.repo_idx = Len(d.repos) THEN NextLanguage(counted)
           ELSE [counted EXCEPT !.repo_idx = @ + 1]

\* collect_stored counting the writes that went through only
collect_stored_written(d) ==
  LET counted == IF calls'[Len(calls')].raised = "none"
                 THEN [d EXCEPT !.total_repos = @ + 1] ELSE d
  IN  IF d.repo_idx = Len(d.repos) THEN NextLanguage(counted)
      ELSE [counted EXCEPT !.repo_idx = @ + 1]

\* lines 130-136 after store_repo returned for repository repo_idx
collect_stored(d) ==
  LET counted == [d EXCEPT !.total_repos = @ + 1]
  IN  IF d.repo_idx = Len(d.repos) THEN NextLanguage(counted)
      ELSE [counted EXCEPT !.repo_idx = @ + 1]

\* lines 142-150: the total and the time are printed, then the average
\* elapsed / total_repos, which raises ZeroDivisionError for a total of 0
collect_summary(d) ==
  IF d.total_repos = 0
  THEN [d EXCEPT !.pc = "raised", !.summary = {"total", "time"}]
  ELSE [d EXCEPT !.pc = "done", !.summary = {"total", "time", "average"}]

(***************************************************************************)
(* Two ingestion runs side by side (two processes running collect_all on   *)
(* the same stores), each calling store_repo on the same repositories in   *)
(* the same order.  The cache store executes one command at a time: the    *)
(* commands of the two runs interleave in any way.  The graph and document *)
(* parts of a call are one step.  Of each run: next, the repository it     *)
(* comes to; cmds, the cache commands its call has still to send; time,    *)
(* the time.time() of the call; mixed, whether a command of it went        *)
(* through while the other run was in a call.                              *)
(***************************************************************************)
RunsIdle == [d \in 1..2 |-> [next |-> 1, cmds |-> << >>, time |-> 0, mixed |-> FALSE]]

\* the repositories both runs fetched
RunRepos == Take(<<RepoA, RepoC, RepoB>>, REPOS_PER_LANGUAGE)

\* lines 154-385 of a call: the graph queries and the document
RunStoreRepo(d) ==
  /\ runs[d].cmds = << >>
  /\ runs[d].next <= Len(RunRepos)
  /\ \E run \in {StoreRepoRun(mg, mongodb, dragonfly, RunRepos[runs[d].next], Lit.France,
                              [store |-> "cache", after |-> 0], now)} :
       /\ mg' = run.mg
       /\ mongodb' = run.mongodb
  /\ runs' = [runs EXCEPT ![d] =
                [@ EXCEPT !.next = @ + 1,
                          !.cmds = CallData(RunRepos[runs[d].next], Lit.France, now).commands,
                          !.time = now]]
  /\ now' = now + 1
  /\ UNCHANGED <<oids, dragonfly, postgres, calls, fetch, driver, aggregator, api>>

\* one cache command of the call (lines 390-448); a command redis-py refuses
\* raises, and the handler of line 450 ends the call
RunCommand(d) ==
  /\ runs[d].cmds # << >>
  /\ LET q == Head(runs[d].cmds)
         other == runs[3 - d].cmds # << >>
     IN  IF CommandOK(q)
         THEN /\ dragonfly' = ExecCommand(dragonfly, q, runs[d].time)
              /\ runs' = [runs EXCEPT ![d] = [@ EXCEPT !.cmds = Tail(@),
                                                       !.mixed = @ \/ other]]
         ELSE /\ dragonfly' = dragonfly
              /\ runs' = [runs EXCEPT ![d] = [@ EXCEPT !.cmds = << >>]]
  /\ UNCHANGED <<mg, mongodb, oids, postgres, now, calls, fetch, driver, aggregator, api>>

(***************************************************************************)
(* The writers, called in any order on any of the repositories.            *)
(***************************************************************************)
vars ==
  <<mg, mongodb, oids, dragonfly, postgres, now, calls, fetch, driver, aggregator,
    runs, api>>

Init ==
  /\ InitStores
  /\ fetch = FetchIdle
  /\ driver = DriverIdle
  /\ aggregator = AggregatorIdle
  /\ runs = RunsIdle
  /\ api = ApiIdle

StoreRepo ==
  /\ Len(calls) < MaxWrites
  /\ \E repo \in WriterRepos, country \in Countries, fault \in Faults :
       store_repo(repo, country, fault)
  /\ UNCHANGED <<fetch, driver, aggregator, runs, api>>

StoreUserData ==
  /\ Len(calls) < MaxWrites
  /\ \E repos \in {<<RepoA>>, <<RepoA3, RepoC>>, <<RepoB>>},
        fault \in {"none", "graph", "postgres"} :
       store_user_data(repos, fault)
  /\ UNCHANGED <<fetch, driver, aggregator, runs, api>>

Spec == Init /\ [][StoreRepo \/ StoreUserData]_vars

(***************************************************************************)
(* The fetcher alone, for every target count and every sequence of page    *)
(* responses.  Upstream ranks repositories r1, r2, ... by stars; a page    *)
(* holds any number of them from its own first rank on, or from one rank   *)
(* earlier when the ranking moved between two requests.                    *)
(***************************************************************************)
MaxRank == 3 * per_page + 2

RankedPage(start, len) ==
  [i \in 1..len |->
     LET k == start + i - 1
     IN  [full_name |-> <<"r">> \o DecStr(k), stargazers_count |-> MaxRank - k]]

FetchCall ==
  /\ fetch.pc = "idle"
  /\ \E total_repos \in {0, 1, per_page, per_page + 1, 2 * per_page + 1} :
       fetch' = search_repositories(total_repos)
  /\ UNCHANGED <<stores, driver, aggregator, runs, api>>

FetchRankedPage ==
  /\ fetch.pc = "paging"
  /\ \E response \in
          {[kind |-> "request_error"], [kind |-> "error"]}
            \cup {[kind |-> "ok", items |-> RankedPage(start, len)] :
                    start \in {(fetch.page - 1) * per_page + 1,
                               Max((fetch.page - 1) * per_page, 1)},
                    len \in {0, 1, per_page, per_page + 1}} :
       fetch' = search_page(fetch, response)
  /\ UNCHANGED <<stores, driver, aggregator, runs, api>>

SpecFetch == Init /\ [][FetchCall \/ FetchRankedPage]_vars

(***************************************************************************)
(* The ingestion driver with the fetcher and the writer it calls.          *)
(***************************************************************************)
CollectStart ==
  /\ driver.pc = "idle"
  /\ \E country \in Countries : driver' = collect_start(country)
  /\ UNCHANGED <<stores, fetch, aggregator, runs, api>>

CollectFetch ==
  /\ driver.pc = "loop"
  /\ driver.idx <= Len(LANGUAGES)
  /\ driver' = collect_fetch(driver)
  /\ fetch' = search_repositories(REPOS_PER_LANGUAGE)
  /\ UNCHANGED <<stores, aggregator, runs, api>>

FetchRepoPage ==
  /\ driver.pc = "fetching"
  /\ fetch.pc = "paging"
  /\ \E response \in
          {[kind |-> "request_error"], [kind |-> "error"]}
            \cup {[kind |-> "ok", items |-> items] :
                    items \in {<< >>, <<RepoA>>, <<RepoD, RepoC>>,
                               <<RepoA, RepoB, RepoA3>>}} :
       fetch' = search_page(fetch, response)
  /\ UNCHANGED <<stores, driver, aggregator, runs, api>>

CollectFetched ==
  /\ driver.pc = "fetching"
  /\ fetch.pc \in {"returned", "raised"}
  /\ driver' = collect_fetched(driver, fetch)
  /\ fetch' = FetchIdle
  /\ UNCHANGED <<stores, aggregator, runs, api>>

CollectStore ==
  /\ driver.pc = "storing"
  /\ \E fault \in {NoFault, [store |-> "graph", after |-> 2],
                   [store |-> "mongo", after |-> 0]} :
       store_repo(driver.repos[driver.repo_idx], driver.country, fault)
  /\ driver' = collect_stored(driver)
  /\ UNCHANGED <<fetch, aggregator, runs, api>>

CollectSummary ==
  /\ driver.pc = "loop"
  /\ driver.idx > Len(LANGUAGES)
  /\ driver' = collect_summary(driver)
  /\ UNCHANGED <<stores, fetch, aggregator, runs, api>>

SpecCollect ==
  /\ Init
  /\ [][\/ CollectStart
       \/ CollectFetch
       \/ FetchRepoPage
       \/ CollectFetched
       \/ CollectStore
       \/ CollectSummary
       ]_vars

(***************************************************************************)
(* A long run of successful store_repo calls: the repositories r/1, r/2,   *)
(* ... in turn, and once, when 'recent:repos' is about full or full, r/1   *)
(* again.                                                                  *)
(***************************************************************************)
StoreRecent ==
  /\ Len(calls) < MaxRecent
  /\ LET written == {calls[i].repo : i \in 1..Len(calls)}
         again == IF Cardinality(written) = Len(calls) /\ Len(calls) + 2 >= RecentKept
                  THEN written \cap {RecentRepo(1)} ELSE {}
     IN  \E repo \in {RecentRepo(Cardinality(written) + 1)} \cup again :
           store_repo(repo, << >>, NoFault)
  /\ UNCHANGED <<fetch, driver, aggregator, runs, api>>

SpecRecent == Init /\ [][StoreRecent]_vars

(***************************************************************************)
(* The writers and the aggregator.  Both are scripts run one at a time: a  *)
(* writer is called before a run of aggregate_all or after it, and a run   *)
(* that follows a write starts anew; a run may follow a run.  Within a run *)
(* the passes come in any order.                                           *)
(***************************************************************************)
\* the store_repo calls: a repository under no filter and then under one, two
\* repositories whose names differ in where the '/' is, two that share a
\* topic, one with a null language
WriteRepo ==
  /\ Len(calls) < MaxWrites
  /\ aggregator.done \in {{}, Passes}
  /\ \E w \in { [repo |-> RepoA, country |-> << >>],
                [repo |-> RepoA, country |-> Lit.France],
                [repo |-> RepoB, country |-> Lit.France],
                [repo |-> RepoP, country |-> Lit.France],
                [repo |-> RepoC, country |-> << >>] } :
       store_repo(w.repo, w.country, NoFault)
  /\ aggregator' = AggregatorIdle
  /\ UNCHANGED <<fetch, driver, runs, api>>

WriteUser ==
  /\ Len(calls) < MaxWrites
  /\ aggregator.done \in {{}, Passes}
  /\ store_user_data(<<RepoA>>, "none")
  /\ aggregator' = AggregatorIdle
  /\ UNCHANGED <<fetch, driver, runs, api>>

AggregateOwners == Pass("owners", aggregate_owners(mongodb))

AggregateLanguages == Pass("languages", aggregate_languages(mongodb))

AggregateLocations == Pass("locations", aggregate_locations(mongodb))

AggregateTopics == Pass("topics", aggregate_topics(mongodb))

AggregateFrameworks ==
  \E order \in SetOrders : Pass("frameworks", aggregate_frameworks(mongodb, order))

SpecAggregate ==
  /\ Init
  /\ [][\/ WriteRepo
       \/ WriteUser
       \/ AggregateOwners
       \/ AggregateLanguages
       \/ AggregateLocations
       \/ AggregateTopics
       \/ AggregateFrameworks
       ]_vars

(***************************************************************************)
(* The passes by location and by topic on every snapshot of the           *)
(* repositories collection of up to MaxSnapshot documents, all written by  *)
(* store_repo under one country filter: five kinds of repository, of four  *)
(* languages and none, in every order and number.                          *)
(***************************************************************************)
SnapshotRepos ==
  << RepoA, RepoP, RepoC,
     [RepoD EXCEPT !.language = <<"R","u","s","t">>],
     [RepoB EXCEPT !.language = <<"J","a","v","a">>,
                   !.topics = << <<"n","u","m","p","y">> >>] >>

\* the i-th document of a snapshot: a repository of its own name
SnapshotDoc(kind, i, country) ==
  LET repo == SnapshotRepos[kind]
      name == repo.name \o DecStr(i)
  IN  MongoDoc([repo EXCEPT !.name = name,
                            !.full_name = repo.owner.login \o <<"/">> \o name],
               country, i)

InitSnapshot ==
  /\ mg = [nodes |-> << >>, rels |-> << >>]
  /\ \E kinds \in UNION {[1..n -> 1..Len(SnapshotRepos)] : n \in 0..MaxSnapshot},
        country \in Countries :
       mongodb = [repositories |-> [i \in 1..Len(kinds) |->
                                      SnapshotDoc(kinds[i], i, country)],
                  user_profiles |-> << >>, owners |-> << >>, languages |-> << >>,
                  locations |-> << >>, topics |-> << >>, frameworks |-> << >>]
  /\ oids = 0
  /\ dragonfly = [data |-> EmptyMap, ttl |-> EmptyMap]
  /\ postgres = [owners |-> EmptyMap, repositories |-> EmptyMap]
  /\ now = MaxSnapshot + 1
  /\ calls = << >>
  /\ fetch = FetchIdle
  /\ driver = DriverIdle
  /\ aggregator = AggregatorIdle
  /\ runs = RunsIdle
  /\ api = ApiIdle

SpecSnapshot == InitSnapshot /\ [][AggregateLocations \/ AggregateTopics]_vars

(***************************************************************************)
(* store_repo called again on a repository after the configuration or      *)
(* upstream changed: config.FILTER_BY_COUNTRY set to another country, the   *)
(* owner's account turned from a user into an organization.                *)
(***************************************************************************)
Reingest ==
  /\ Len(calls) < MaxWrites
  /\ \E w \in { [repo |-> RepoA, country |-> Lit.France],
                [repo |-> RepoA, country |-> Lit.Japan],
                [repo |-> [RepoA EXCEPT !.owner.type = Lit.Organization],
                 country |-> Lit.France],
                [repo |-> RepoB, country |-> << >>] },
        fault \in Faults :
       store_repo(w.repo, w.country, fault)
  /\ UNCHANGED <<fetch, driver, aggregator, runs, api>>

SpecReingest == Init /\ [][Reingest]_vars

(***************************************************************************)
(* The keyword matchers alone, on repositories of up to MaxTopics topics   *)
(* and a description: topics that hold a keyword of one table, of both     *)
(* ('gin'), of neither, inside a longer word and in upper case.            *)
(***************************************************************************)
Detect ==
  /\ calls = << >>
  /\ LET DetectTopics ==
          { <<"g","i","n">>,
            <<"D","j","a","n","g","o">>,
            <<"f","l","a","s","k","-","n","u","m","p","y">>,
            <<"r","e","a","c","t","i","v","e">>,
            <<"p","a","n","d","a","s">>,
            <<"c","l","i">> }
         DetectDescriptions ==
          { << >>, None,
            <<"B","u","i","l","t"," ","o","n"," ","F","a","s","t","A","P","I",","," ","R","a","i","l","s"," ","&"," ","s","e","r","d","e">> }
     IN  \E n \in 0..MaxTopics :
           \E topics \in [1..n -> DetectTopics], description \in DetectDescriptions :
             LET repo == [RepoB EXCEPT !.topics = topics, !.description = description]
             IN  calls' = <<[op |-> "detect", repo |-> repo,
                             frameworks |-> _detect_frameworks(repo),
                             dependencies |-> _detect_dependencies(repo)]>>
  /\ UNCHANGED <<mg, mongodb, oids, dragonfly, postgres, now, fetch, driver, aggregator, runs, api>>

SpecDetect == Init /\ [][Detect]_vars

\* the two runs side by side
SpecConcurrent == Init /\ [][\E d \in 1..2 : RunStoreRepo(d) \/ RunCommand(d)]_vars

(***************************************************************************)
(* The writer, the aggregator and the relational sync: three scripts run   *)
(* one at a time against the document store.                               *)
(***************************************************************************)
SyncToPostgres ==
  /\ aggregator.done \in {{}, Passes}
  /\ postgres' = sync_to_postgres(mongodb)
  /\ UNCHANGED <<mg, mongodb, oids, dragonfly, now, calls, fetch, driver, aggregator,
                 runs, api>>

SpecSync ==
  /\ Init
  /\ [][\/ WriteRepo
       \/ AggregateOwners
       \/ AggregateLanguages
       \/ AggregateLocations
       \/ AggregateTopics
       \/ AggregateFrameworks
       \/ SyncToPostgres
       ]_vars

(***************************************************************************)
(* The API beside the writer: requests to two cached endpoints and to      *)
(* /cache/clear, with the cache store raising on a command or not, between *)
(* calls of store_repo, while the clock of the cache store moves on.       *)
(***************************************************************************)
\* the repositories a run of collect_all under 'France' writes, in its order
ApiWrite ==
  LET repos == <<RepoA, RepoP, RepoC, RepoA3>>
  IN  /\ Len(calls) < MaxWrites
      /\ Len(calls) < Len(repos)
      /\ store_repo(repos[Len(calls) + 1], Lit.France, NoFault)
  /\ UNCHANGED <<fetch, driver, aggregator, runs, api>>

GetReposByLocation ==
  \E args \in { [location |-> Lit.France, limit |-> 1],
                 [location |-> Lit.France, limit |-> 10] },
     fault \in {"none", "get", "setex"} :
    Request("get_repos_by_location",
            ApiKey(Lit.get_repos_by_location,
                   << <<Lit.location, <<"'">> \o args.location \o <<"'">> >>,
                      <<Lit.limit, DecStr(args.limit)>> >>),
            LocationReposTTL,
            get_repos_by_location(mongodb, args.location, args.limit),
            fault)

GetLanguages ==
  \E fault \in {"none", "get", "setex"} :
    Request("get_languages", ApiKey(Lit.get_languages, << >>), LanguagesTTL,
            get_languages(mg), fault)

ClearCache ==
  /\ api.n < MaxRequests
  /\ \E raises \in BOOLEAN :
       LET call == clear_cache(dragonfly, raises, now)
       IN  /\ dragonfly' = call.c
           /\ api' = [n |-> api.n + 1,
                      last |-> [op |-> "clear_cache", status |-> call.status,
                                cleared_keys |-> call.cleared_keys],
                      cleared |-> api.cleared \/ call.status = "success",
                      dropped |-> IF call.status = "success"
                                  THEN DOMAIN dragonfly.data \ DOMAIN call.c.data
                                  ELSE api.dropped,
                      since |-> IF call.status = "success" THEN {} ELSE api.since]
  /\ UNCHANGED <<mg, mongodb, oids, postgres, now, calls, fetch, driver, aggregator,
                 runs>>

\* time passes on the clock of the cache store
Elapse ==
  /\ now + LocationReposTTL <= MaxClock
  /\ now' = now + LocationReposTTL
  /\ UNCHANGED <<mg, mongodb, oids, dragonfly, postgres, calls, fetch, driver,
                 aggregator, runs, api>>

SpecApi ==
  /\ Init
  /\ [][\/ ApiWrite
       \/ GetReposByLocation
       \/ GetLanguages
       \/ ClearCache
       \/ Elapse
       ]_vars

(***************************************************************************)
(* Properties.                                                             *)
(***************************************************************************)
\* the calls of store_repo among the first n calls
RepoCalls == {i \in 1..Len(calls) : calls[i].op = "store_repo"}

\* a document without its collection timestamp
Strip(doc) == [f \in DOMAIN doc \ {"collected_at"} |-> doc[f]]

\* C1: after any sequence of successful store_repo writes (and no other
\* writer), the repositories collection holds exactly one document for each
\* full_name written, and it is the document of the most recent write of that
\* full_name.
C1_OneDocumentPerWrittenFullName ==
  (\A i \in 1..Len(calls) : calls[i].op = "store_repo" /\ calls[i].raised = "none")
    => \A i \in 1..Len(calls) :
         LET full_name == calls[i].repo.full_name
             same == {j \in 1..Len(calls) : calls[j].repo.full_name = full_name}
             last == CHOOSE j \in same : \A k \in same : k <= j
             found == Find(mongodb.repositories, "full_name", full_name)
         IN  /\ Cardinality(found) = 1
             /\ {mongodb.repositories[d] : d \in found} = calls[last].stored

\* C2: two store_repo calls with the same repository record and the same
\* country filter, both of which wrote the document, leave documents that
\* are equal in every field except collected_at.
C2_RerunLeavesDocument ==
  \A i \in RepoCalls, j \in RepoCalls :
    (/\ i < j
     /\ calls[i].repo = calls[j].repo
     /\ calls[i].country = calls[j].country
     /\ calls[i].stored # {}
     /\ calls[j].stored # {})
      => /\ {Strip(d) : d \in calls[i].stored} = {Strip(d) : d \in calls[j].stored}
         /\ Cardinality(calls[j].stored) = 1

\* C2's case: the same record was written twice under the same filter, at
\* different times, and the second document is the one in the store.
C2_Witness ==
  \E i \in RepoCalls, j \in RepoCalls :
    /\ i < j
    /\ calls[i].repo = calls[j].repo
    /\ calls[i].country = calls[j].country
    /\ calls[i].stored # {}
    /\ calls[j].stored # {}
    /\ calls[i].stored # calls[j].stored
    /\ \E d \in 1..Len(mongodb.repositories) : {mongodb.repositories[d]} = calls[j].stored

\* C3: the graph store holds at most one Repository node per full_name and
\* at most one relationship of a type between two nodes, and a store_repo
\* call given the record and filter of an earlier call whose graph part went
\* through adds no node and no relationship.
C3_GraphMergeIsIdempotent ==
  /\ \A i \in 1..Len(mg.nodes), j \in 1..Len(mg.nodes) :
       (i # j /\ mg.nodes[i].label = "Repository" /\ mg.nodes[j].label = "Repository")
         => mg.nodes[i].key # mg.nodes[j].key
  /\ \A i \in 1..Len(mg.rels), j \in 1..Len(mg.rels) :
       i # j => mg.rels[i] # mg.rels[j]
  /\ \A i \in RepoCalls, j \in RepoCalls :
       (/\ i < j
        /\ calls[i].repo = calls[j].repo
        /\ calls[i].country = calls[j].country
        /\ "mongo" \in calls[i].attempted)
         => calls[j].nodes_added = 0 /\ calls[j].rels_added = 0

\* C3's case: a record was written a second time, unchanged, after a first
\* write that created its nodes and relationships.
C3_Witness ==
  \E i \in RepoCalls, j \in RepoCalls :
    /\ i < j
    /\ calls[i].repo = calls[j].repo
    /\ calls[i].country = calls[j].country
    /\ calls[i].nodes_added > 0
    /\ calls[i].rels_added > 0
    /\ "mongo" \in calls[i].attempted
    /\ "mongo" \in calls[j].attempted

\* C4: whichever of store_repo and store_user_data wrote them, the
\* repositories collection holds at most one document per full_name.
C4_FullNameUniqueAcrossWriters ==
  \A i \in 1..Len(mongodb.repositories), j \in 1..Len(mongodb.repositories) :
    i # j => mongodb.repositories[i].full_name # mongodb.repositories[j].full_name

\* C5: a store_repo call in which one store raised still attempted the
\* writes to the other two stores.
C5_OtherStoresStillAttempted ==
  \A i \in RepoCalls :
    calls[i].raised # "none" => calls[i].attempted = {"graph", "mongo", "cache"}

\* the repositories the fetcher has handed to collect_all so far, in order
Handed == Flatten([i \in 1..Len(driver.results) |-> driver.results[i].repos])

Ended == driver.pc \in {"done", "raised"}

\* C6: collect_all calls store_repo for the repositories the fetcher
\* returned, in order, and when it leaves a language it has called it for
\* every one of them, whichever of the calls raised.
C6_WriteFailureNeverAbortsBatch ==
  /\ Len(calls) <= Len(Handed)
  /\ \A i \in 1..Len(calls) : calls[i].op = "store_repo" /\ calls[i].repo = Handed[i]
  /\ driver.pc # "storing" => Len(calls) = Len(Handed)
  /\ driver.pc = "storing" =>
       Len(calls) = Len(Handed) - Len(driver.repos) + driver.repo_idx - 1

\* C6's case: a language's first write raised and its second repository was
\* still written.
C6_Witness ==
  /\ driver.pc = "loop"
  /\ Len(calls) >= 2
  /\ Len(driver.results[Len(driver.results)].repos) >= 2
  /\ calls[Len(calls) - 1].raised # "none"
  /\ calls[Len(calls)].raised = "none"

\* C7: the fetches collect_all has made are those of the first configured
\* languages, each once and in configured order, and when it ends it has
\* made the fetch of every configured language, whichever of them raised.
C7_EveryLanguageAttemptedOnce ==
  /\ driver.fetched = SubSeq(LANGUAGES, 1, Len(driver.fetched))
  /\ Ended => driver.fetched = LANGUAGES /\ Len(driver.results) = Len(LANGUAGES)

\* C7's case: the first language's fetch raised, and the run went on to
\* fetch the other languages and to write a later language's repositories.
C7_Witness ==
  /\ Ended
  /\ driver.results[1].raised
  /\ driver.fetched = LANGUAGES
  /\ Len(calls) > 0

\* C8: when collect_all ends it has reported the whole summary: the total,
\* the elapsed time and the throughput.
C8_SummaryAlwaysReported ==
  Ended => driver.pc = "done" /\ driver.summary = {"total", "time", "average"}

\* C9: search_repositories returns at most total_repos records.
C9_AtMostTargetCount ==
  fetch.pc = "returned" => Len(fetch.result) <= fetch.total_repos

\* C9's case: pages of more than per_page items brought more records than
\* asked for over several requests, and the result was cut to the target.
C9_Witness ==
  /\ fetch.pc = "returned"
  /\ Len(fetch.requests) >= 2
  /\ Len(fetch.all_repos) > fetch.total_repos
  /\ Len(fetch.result) = fetch.total_repos

\* C10: the records search_repositories returns have pairwise distinct
\* full_names and are in descending order of stars.
C10_DistinctAndDescending ==
  fetch.pc = "returned" =>
    /\ \A i \in 1..Len(fetch.result), j \in 1..Len(fetch.result) :
         i # j => fetch.result[i].full_name # fetch.result[j].full_name
    /\ \A i \in 1..(Len(fetch.result) - 1) :
         fetch.result[i].stargazers_count >= fetch.result[i + 1].stargazers_count

\* C11: when the request for page k fails with a request-level error, the
\* call has requested exactly the pages 1..k, has not raised, and returns the
\* records of the pages 1..k-1, cut to the target count.
C11_RequestErrorReturnsAccumulated ==
  fetch.failed # 0 =>
    /\ fetch.pc = "returned"
    /\ fetch.requests = [i \in 1..fetch.failed |-> i]
    /\ Len(fetch.got) = fetch.failed - 1
    /\ fetch.result = Take(Flatten(fetch.got), fetch.total_repos)

\* C11's case: the second page's request failed after a first page that
\* brought records, and those records are returned.
C11_Witness ==
  /\ fetch.failed = 2
  /\ fetch.pc = "returned"
  /\ fetch.got[1] # << >>
  /\ fetch.result = fetch.got[1]

\* C12: the pages requested are 1, 2, ... in this order, there are at most
\* ceil(total_repos / 100) of them, and a page is requested only while the
\* pages before it brought fewer than total_repos records.
C12_PagesInOrderAndBounded ==
  /\ fetch.requests = [i \in 1..Len(fetch.requests) |-> i]
  /\ 100 * Len(fetch.requests) < fetch.total_repos + 100
  /\ \A i \in 2..Len(fetch.requests) :
       i - 1 <= Len(fetch.got) /\ Len(Flatten(SubSeq(fetch.got, 1, i - 1))) < fetch.total_repos

\* C12's case: the first page alone reached the target count of a call that
\* needed two pages, and the call returned after that single request.
C12_Witness ==
  /\ fetch.pc = "returned"
  /\ fetch.requests = <<1>>
  /\ fetch.total_repos > 100
  /\ Len(fetch.all_repos) >= fetch.total_repos

\* C13: when the store_repo calls for an owner were k successful writes of
\* one repository record with s stars and f forks, the hash
\* owner:<login>:stats holds total_repos = k, total_stars = k*s and
\* total_forks = k*f.
C13_OwnerCountersAccumulate ==
  \A r \in WriterRepos :
    LET mine == {i \in RepoCalls : calls[i].repo.owner.login = r.owner.login}
        k == Cardinality(mine)
        key == CacheKey.owner \o Escape(r.owner.login) \o CacheKey.stats
    IN  (k > 0 /\ \A i \in mine : calls[i].repo = r /\ calls[i].raised = "none")
          => /\ key \in DOMAIN dragonfly.data
             /\ dragonfly.data[key] =
                  [f \in {HashField.total_repos, HashField.total_stars, HashField.total_forks} |->
                     IF f = HashField.total_repos THEN k
                     ELSE IF f = HashField.total_stars THEN k * r.stargazers_count
                     ELSE k * r.forks_count]

\* C13's case: one repository with stars was written twice, successfully, and
\* its owner's total_stars is twice the repository's stars.
C13_Witness ==
  \E r \in WriterRepos :
    LET key == CacheKey.owner \o Escape(r.owner.login) \o CacheKey.stats
    IN  /\ r.stargazers_count > 0
        /\ Cardinality(RepoCalls) = 2
        /\ \A i \in RepoCalls : calls[i].repo = r /\ calls[i].raised = "none"
        /\ key \in DOMAIN dragonfly.data
        /\ dragonfly.data[key][HashField.total_stars] = 2 * r.stargazers_count

\* the members of 'recent:repos'
RecentMembers == DOMAIN Get(dragonfly.data, CacheKey.recent_repos)

\* C14: after successful store_repo writes 'recent:repos' holds at most 100
\* members, all of them written; it holds every repository written while
\* there are at most 100 of them and exactly 100 once there are more, and
\* every member was last written after every written repository that is not
\* a member.
C14_RecentKeepsLatestHundred ==
  LET written == {calls[i].repo.full_name : i \in 1..Len(calls)}
      last(name) == LET at == {i \in 1..Len(calls) : calls[i].repo.full_name = name}
                    IN  CHOOSE i \in at : \A j \in at : j <= i
  IN  /\ Cardinality(RecentMembers) <= 100
      /\ RecentMembers \subseteq written
      /\ Cardinality(written) <= 100 => RecentMembers = written
      /\ Cardinality(written) > 100 => Cardinality(RecentMembers) = 100
      /\ \A m \in RecentMembers : \A w \in written \ RecentMembers : last(w) < last(m)

\* C14's case: more than 100 distinct repositories were written, the first of
\* them a second time late in the run: it is a member, the second is not.
C14_Witness ==
  /\ Cardinality({calls[i].repo : i \in 1..Len(calls)}) > 100
  /\ Cardinality(RecentMembers) = 100
  /\ RecentRepo(1).full_name \in RecentMembers
  /\ RecentRepo(2).full_name \notin RecentMembers

\* C15: once aggregate_owners has run, the total_stars of the rows of the
\* owners collection add up to the stars of the documents of the repositories
\* collection.
C15_OwnerStarsSumToRepositoryStars ==
  "owners" \in aggregator.done =>
    Sum(mongodb.owners, "total_stars") = Sum(mongodb.repositories, "stars")

\* the documents of the repositories collection that list the topic
Listing(topic) ==
  SelectSeq(mongodb.repositories,
            LAMBDA doc : "topics" \in DOMAIN doc
                         /\ \E i \in 1..Len(doc.topics) : doc.topics[i] = topic)

\* C16: once aggregate_topics has run, every topic that a document of the
\* repositories collection lists has one row, whose total_repos is the number
\* of documents listing the topic and whose total_stars is the sum of their
\* stars.
C16_TopicRowCountsEveryListing ==
  "topics" \in aggregator.done =>
    \A d \in 1..Len(mongodb.repositories) :
      \A t \in 1..Len(DocGet(mongodb.repositories[d], "topics", << >>)) :
        LET topic == mongodb.repositories[d].topics[t]
            rows == SelectSeq(mongodb.topics, LAMBDA row : row._id = topic)
        IN  /\ Len(rows) = 1
            /\ rows[1].total_repos = Len(Listing(topic))
            /\ rows[1].total_stars = Sum(Listing(topic), "stars")

\* the pass has run on a snapshot with a repository of two topics, one of
\* which a second repository lists as well
C16_Witness ==
  /\ "topics" \in aggregator.done
  /\ \E d \in 1..Len(mongodb.repositories) : Len(mongodb.repositories[d].topics) = 2
  /\ \E r \in 1..Len(mongodb.topics) :
       /\ mongodb.topics[r].total_repos = 2
       /\ mongodb.topics[r].total_stars = 7
       /\ Len(Listing(mongodb.topics[r]._id)) = 2

\* every call so far was a store_repo call under this country filter whose
\* document write went through, each on a repository of its own
WroteDistinctUnder(country) ==
  /\ calls # << >>
  /\ \A i \in 1..Len(calls) :
       /\ calls[i].op = "store_repo"
       /\ calls[i].country = country
       /\ "cache" \in calls[i].attempted
  /\ \A i, j \in 1..Len(calls) :
       calls[i].repo.full_name = calls[j].repo.full_name => i = j

\* C17: when store_repo has written distinct repositories under one country
\* filter into the empty document store and aggregate_locations has run, the
\* locations row of the country ('Global' for the empty filter) has the
\* number of the repositories as total_repos, the sum of their stars as
\* total_stars and their quotient, to the nearest hundredth, as avg_stars.
C17_LocationRowOfWrittenRepositories ==
  \A country \in Countries :
    ("locations" \in aggregator.done /\ WroteDistinctUnder(country)) =>
      LET key == IF country = << >> THEN Lit.Global ELSE country
          rows == SelectSeq(mongodb.locations, LAMBDA row : row._id = key)
          n == Len(calls)
          total == Sum([i \in 1..n |-> calls[i].repo], "stargazers_count")
      IN  /\ Len(rows) = 1
          /\ rows[1].total_repos = n
          /\ rows[1].total_stars = total
          /\ 2 * (rows[1].avg_stars * n - 100 * total) \in (0 - n)..n

\* the positions, in the scan of the repositories collection, of the
\* documents of a location that have the language
Scanned(location, language) ==
  {i \in 1..Len(mongodb.repositories) :
     /\ DocGet(mongodb.repositories[i], "location", Lit.Global) = location
     /\ DocGet(mongodb.repositories[i], "language", None) = language}

\* language k ranks before language l in a location: more repositories, or as
\* many and met first in the scan
RanksBefore(location, k, l) ==
  LET nk == Cardinality(Scanned(location, k))
      nl == Cardinality(Scanned(location, l))
  IN  \/ nk > nl
      \/ nk = nl /\ \E i \in Scanned(location, k) : \A j \in Scanned(location, l) : i < j

\* C18: once aggregate_locations has run, the top_languages of the row of
\* every location of the snapshot hold at most 3 languages, each ranking
\* before the next and before every language of the location left out: in
\* non-increasing order of repository count, the language met first in the
\* scan first (and kept) among equal counts.
C18_TopLanguagesRankedStably ==
  "locations" \in aggregator.done =>
    \A d \in 1..Len(mongodb.repositories) :
      LET location == DocGet(mongodb.repositories[d], "location", Lit.Global)
          rows == SelectSeq(mongodb.locations, LAMBDA row : row._id = location)
          top == rows[1].top_languages
          languages == {l \in {DocGet(mongodb.repositories[i], "language", None) :
                                 i \in 1..Len(mongodb.repositories)} :
                          Truthy(l) /\ Scanned(location, l) # {}}
      IN  /\ Len(rows) = 1
          /\ Len(top) <= 3
          /\ Len(top) = 3 \/ Len(top) = Cardinality(languages)
          /\ \A i \in 1..Len(top) : top[i] \in languages
          /\ \A i, j \in 1..Len(top) : i < j => RanksBefore(location, top[i], top[j])
          /\ \A i \in 1..Len(top) :
               \A l \in languages :
                 (\A j \in 1..Len(top) : top[j] # l) => RanksBefore(location, top[i], l)

\* the pass has run on a snapshot of four languages with one repository each:
\* the cut at 3 falls inside a tie
C18_Witness ==
  /\ "locations" \in aggregator.done
  /\ Len(mongodb.repositories) = 4
  /\ Cardinality({mongodb.repositories[i].language : i \in 1..4}) = 4
  /\ \A i \in 1..4 : Truthy(mongodb.repositories[i].language)
  /\ mongodb.locations[1].top_languages =
       [i \in 1..3 |-> mongodb.repositories[i].language]
  /\ mongodb.repositories[4].language = Lit.Go

\* what the pass can leave in its collection when it runs on the document
\* store m
Outcomes(pass, m) ==
  CASE pass = "owners" -> {aggregate_owners(m).owners}
    [] pass = "languages" -> {aggregate_languages(m).languages}
    [] pass = "locations" -> {aggregate_locations(m).locations}
    [] pass = "topics" -> {aggregate_topics(m).topics}
    [] pass = "frameworks" ->
         {aggregate_frameworks(m, order).frameworks : order \in SetOrders}

\* C19: in whatever order a run makes the passes, the repositories collection
\* stays as the run found it, a collection whose pass has not run yet is as
\* the run found it, and a collection whose pass has run holds what that pass
\* leaves when it runs first, on the store the run began with: the contents
\* after the five passes do not depend on their order.
C19_PassesAreOrderIndependent ==
  aggregator.done # {} =>
    /\ mongodb.repositories = aggregator.start.repositories
    /\ mongodb.user_profiles = aggregator.start.user_profiles
    /\ \A pass \in Passes :
         IF pass \in aggregator.done
         THEN mongodb[pass] \in Outcomes(pass, aggregator.start)
         ELSE mongodb[pass] = aggregator.start[pass]

\* a run has made the five passes, each leaving rows, on a store that held
\* rows of an earlier run
C19_Witness ==
  /\ aggregator.done = Passes
  /\ \A pass \in Passes : mongodb[pass] # << >>
  /\ aggregator.start.locations # << >>
  /\ mongodb.locations # aggregator.start.locations

\* the keys the documents of the repositories collection go under in a pass
SnapshotKeys(pass) ==
  LET docs == mongodb.repositories
      each(field) == UNION {{DocGet(docs[i], field, << >>)[j] :
                               j \in 1..Len(DocGet(docs[i], field, << >>))} :
                            i \in 1..Len(docs)}
  IN  CASE pass = "owners" -> {docs[i].owner_login : i \in 1..Len(docs)}
        [] pass = "languages" ->
             {DocGet(docs[i], "language", Lit.Unknown) : i \in 1..Len(docs)}
        [] pass = "locations" ->
             {DocGet(docs[i], "location", Lit.Global) : i \in 1..Len(docs)}
        [] pass = "topics" -> each("topics")
        [] pass = "frameworks" -> each("frameworks")

\* C20: a step of the aggregator leaves every row of the five collections
\* whose key no document of the repositories collection goes under any more
\* in its place and as it was.
C20_StaleRowsAreLeftAlone ==
  [][calls' = calls =>
       \A pass \in Passes :
         \A i \in 1..Len(mongodb[pass]) :
           mongodb[pass][i]._id \notin SnapshotKeys(pass) =>
             /\ i <= Len(mongodb'[pass])
             /\ mongodb'[pass][i] = mongodb[pass][i]]_vars

\* aggregate_topics has run on a store that held the row of a topic no
\* document lists any more, and the row is still there
C20_Witness ==
  /\ "topics" \in aggregator.done
  /\ \E i \in 1..Len(mongodb.topics) :
       /\ mongodb.topics[i]._id \notin SnapshotKeys("topics")
       /\ i <= Len(aggregator.start.topics)
       /\ mongodb.topics[i] = aggregator.start.topics[i]

\* C21: a run of the five passes that began where another run had ended, the
\* repositories collection unchanged in between, leaves the repositories and
\* the five summary collections as it found them.  (The list(set) fields are
\* sets here: their order is not compared.)
C21_SecondRunLeavesSameRows ==
  (aggregator.done = Passes /\ aggregator.rerun) =>
    /\ mongodb.repositories = aggregator.start.repositories
    /\ \A pass \in Passes : mongodb[pass] = aggregator.start[pass]

\* the nodes of a label that a node of the graph has a relationship of a type to
Targets(src, type, label) ==
  {mg.rels[j].dst : j \in {k \in 1..Len(mg.rels) :
                             /\ mg.rels[k].type = type
                             /\ mg.rels[k].src = src
                             /\ mg.nodes[mg.rels[k].dst].label = label}}

\* C22: every Repository node of the graph store is LOCATED_IN at most one
\* Location node.
C22_RepositoryHasOneLocation ==
  \A r \in 1..Len(mg.nodes) :
    mg.nodes[r].label = "Repository" =>
      Cardinality(Targets(r, "LOCATED_IN", "Location")) <= 1

\* C23: no login is the key of a User node and of an Organization node of
\* the graph store.
C23_OwnerLabelIsExclusive ==
  \A u, o \in 1..Len(mg.nodes) :
    (mg.nodes[u].label = "User" /\ mg.nodes[o].label = "Organization") =>
      mg.nodes[u].key # mg.nodes[o].key

\* the positions of the first three entries of a keyword table whose keyword
\* occurs in the text f"{' '.join(topics)} {description}".lower()
FirstHits(table, repo) ==
  LET text == Lower(Join(repo.topics, <<" ">>) \o <<" ">> \o Str(repo.description))
      hits == {k \in 1..Len(table) : Contains(text, table[k][1])}
  IN  {k \in hits : Cardinality({j \in hits : j < k}) < 3}

\* the i-th smallest element of a set of numbers
Nth(S, i) == CHOOSE k \in S : Cardinality({j \in S : j < k}) = i - 1

\* C24: _detect_frameworks and _detect_dependencies return at most 3 entries:
\* the first three entries of their keyword table, in table order, whose
\* keyword occurs in the lower-cased text of the topics and the description,
\* all of them when fewer match; a framework is named by its title-cased
\* keyword.
C24_FirstThreeMatchesInTableOrder ==
  \A c \in 1..Len(calls) :
    calls[c].op = "detect" =>
      LET fws == FirstHits(framework_map, calls[c].repo)
          deps == FirstHits(dep_map, calls[c].repo)
      IN  /\ Len(calls[c].frameworks) <= 3
          /\ Len(calls[c].dependencies) <= 3
          /\ Len(calls[c].frameworks) = Cardinality(fws)
          /\ Len(calls[c].dependencies) = Cardinality(deps)
          /\ \A i \in 1..Len(calls[c].frameworks) :
               calls[c].frameworks[i] =
                 <<Title(framework_map[Nth(fws, i)][1]), framework_map[Nth(fws, i)][2]>>
          /\ \A i \in 1..Len(calls[c].dependencies) :
               calls[c].dependencies[i] = dep_map[Nth(deps, i)]

\* the matchers were applied to a repository in which more than three
\* keywords of each table occur
C24_Witness ==
  /\ calls # << >>
  /\ calls[1].op = "detect"
  /\ Len(calls[1].frameworks) = 3
  /\ Len(calls[1].dependencies) = 3
  /\ \E k \in 1..Len(framework_map) :
       /\ Contains(MatchText(calls[1].repo), framework_map[k][1])
       /\ \A i \in 1..3 : calls[1].frameworks[i][1] # Title(framework_map[k][1])
  /\ \E k \in 1..Len(dep_map) :
       /\ Contains(MatchText(calls[1].repo), dep_map[k][1])
       /\ \A i \in 1..3 : calls[1].dependencies[i] # dep_map[k]

\* both runs have made all their calls
RunsEnded == \A d \in 1..2 : runs[d].next > Len(RunRepos) /\ runs[d].cmds = << >>

\* C25: when two runs over the same repositories have ended, however their
\* cache commands interleaved, each owner's counters hold the increments of
\* both runs: twice what the repositories of the owner add up to.
C25_ConcurrentIncrementsAllCount ==
  RunsEnded =>
    \A r \in 1..Len(RunRepos) :
      LET login == RunRepos[r].owner.login
          mine == SelectSeq(RunRepos, LAMBDA repo : repo.owner.login = login)
          key == CacheKey.owner \o Escape(login) \o CacheKey.stats
      IN  /\ key \in DOMAIN dragonfly.data
          /\ dragonfly.data[key] =
               [f \in {HashField.total_repos, HashField.total_stars, HashField.total_forks} |->
                  IF f = HashField.total_repos THEN 2 * Len(mine)
                  ELSE IF f = HashField.total_stars THEN 2 * Sum(mine, "stargazers_count")
                  ELSE 2 * Sum(mine, "forks_count")]

\* both runs have ended, each having sent commands while the other was in a
\* call
C25_Witness ==
  /\ RunsEnded
  /\ \A d \in 1..2 : runs[d].mixed
  /\ dragonfly.data[CacheKey.owner \o RunRepos[1].owner.login \o CacheKey.stats]
       [HashField.total_stars] = 2 * (RepoA.stargazers_count + RepoC.stargazers_count)

\* the Location and City nodes of a graph
PlaceNodes(g) == {n \in 1..Len(g.nodes) : g.nodes[n].label \in {"Location", "City"}}

\* the LOCATED_IN and PART_OF relationships of a graph
PlaceRels(g) == {r \in 1..Len(g.rels) : g.rels[r].type \in {"LOCATED_IN", "PART_OF"}}

\* the keys leaderboard:location:*, stats:location:* and location:*:languages
IsLocationKey(key) ==
  \/ StartsWith(key, CacheKey.leaderboard_location)
  \/ StartsWith(key, CacheKey.stats_location)
  \/ /\ StartsWith(key, CacheKey.location)
     /\ Len(key) >= Len(CacheKey.languages)
     /\ SubSeq(key, Len(key) - Len(CacheKey.languages) + 1, Len(key)) = CacheKey.languages

LocationKeys(c) == {key \in DOMAIN c.data : IsLocationKey(key)}

\* C26: a call of store_repo with the empty country filter, wherever it ends,
\* adds no Location or City node and no LOCATED_IN or PART_OF relationship
\* and leaves every location-scoped key of the cache as it was.
C26_EmptyFilterWritesNoLocation ==
  [][(/\ Len(calls') = Len(calls) + 1
      /\ calls'[Len(calls')].op = "store_repo"
      /\ calls'[Len(calls')].country = << >>)
     => /\ PlaceNodes(mg') = PlaceNodes(mg)
        /\ PlaceRels(mg') = PlaceRels(mg)
        /\ LocationKeys(dragonfly') = LocationKeys(dragonfly)
        /\ \A key \in LocationKeys(dragonfly) :
             /\ dragonfly'.data[key] = dragonfly.data[key]
             /\ key \in DOMAIN dragonfly'.ttl <=> key \in DOMAIN dragonfly.ttl
             /\ key \in DOMAIN dragonfly.ttl => dragonfly'.ttl[key] = dragonfly.ttl[key]]_vars

\* after a call under 'France' that wrote the country's node, relationship
\* and keys, a call with the empty filter went through all three stores
C26_Witness ==
  /\ Len(calls) = 2
  /\ \A i \in 1..2 : calls[i].op = "store_repo" /\ calls[i].raised = "none"
  /\ calls[1].country = Lit.France
  /\ calls[2].country = << >>
  /\ calls[2].repo.owner.location # << >>
  /\ PlaceNodes(mg) # {}
  /\ PlaceRels(mg) # {}
  /\ LocationKeys(dragonfly) # {}

\* C29: the total collect_all reports when it ends is the number of calls of
\* store_repo it made, all of which returned, and the number of repositories
\* the fetcher handed over, those whose write raised and was logged included.
C29_TotalCountsEveryHandedRepository ==
  /\ driver.total_repos = Cardinality(RepoCalls)
  /\ Ended =>
       /\ "total" \in driver.summary
       /\ driver.total_repos = Len(Handed)
       /\ driver.total_repos >= Cardinality({i \in RepoCalls : calls[i].raised # "none"})

\* collect_all ended after writes of which one raised in the graph store and
\* one in the document store, and reported them in its total
C29_Witness ==
  /\ driver.pc = "done"
  /\ driver.total_repos = Len(Handed)
  /\ \E i, j \in RepoCalls : calls[i].raised = "graph" /\ calls[j].raised = "mongo"
  /\ \E i \in RepoCalls : calls[i].raised = "none"

\* C27: the sync that follows a run of the aggregator gives each row of the
\* relational topics and frameworks tables, in repo_count, the total_repos
\* of the aggregate row of the same name.
C27_RepoCountCarriesTotalRepos ==
  [][(aggregator.done = Passes /\ postgres' # postgres)
     => \A t \in {"topics", "frameworks"} :
          \A id \in DOMAIN postgres'[t] :
            \E i \in 1..Len(mongodb[t]) :
              /\ mongodb[t][i].name = postgres'[t][id].name
              /\ postgres'[t][id].repo_count = mongodb[t][i].total_repos]_vars

\* the step is a request to a cached endpoint
IsRequest == api'.n = api.n + 1 /\ api'.last.op # "clear_cache"

\* the key has an entry that has not expired
Unexpired(key) ==
  /\ key \in DOMAIN dragonfly.data
  /\ key \in DOMAIN dragonfly.ttl => now < dragonfly.ttl[key]

\* the ttl the endpoint is configured with
ConfiguredTTL(op) == IF op = "get_languages" THEN LanguagesTTL ELSE LocationReposTTL

\* the cache holds the result of the request under its key, to expire ttl
\* seconds from now, and is otherwise as it was
StoredBy(r) ==
  /\ dragonfly'.data = Put(dragonfly.data, r.key, <<"<json>", r.result>>)
  /\ dragonfly'.ttl = Put(dragonfly.ttl, r.key, now + ConfiguredTTL(r.op))

\* C28 as stated: a request whose key has an unexpired entry returns the
\* entry and does not invoke the function; any other request invokes it
\* once, stores the result under the key with the configured ttl and
\* returns it.
C28_HitReturnsEntryMissStores ==
  [][IsRequest =>
       LET r == api'.last
       IN  IF Unexpired(r.key)
           THEN r.invoked = 0 /\ r.returned = dragonfly.data[r.key][2]
                /\ dragonfly' = dragonfly
           ELSE r.invoked = 1 /\ r.returned = r.result /\ StoredBy(r)]_vars

\* C28, amended: as stated when the cache store answers.  When it raises on
\* the get the function is invoked although an entry exists; when it raises
\* on the setex the result is returned and the cache is left as it was.
C28_HitReturnsEntryMissStoresUnlessCacheRaises ==
  [][IsRequest =>
       LET r == api'.last
       IN  IF Unexpired(r.key) /\ r.fault # "get"
           THEN r.invoked = 0 /\ r.returned = dragonfly.data[r.key][2]
                /\ dragonfly' = dragonfly
           ELSE /\ r.invoked = 1
                /\ r.returned = r.result
                /\ IF r.fault = "setex" THEN dragonfly' = dragonfly ELSE StoredBy(r)]_vars

\* a request was answered from an entry stored before a write changed what
\* the function returns
C28_Witness ==
  /\ api.n >= 2
  /\ api.last.op = "get_repos_by_location"
  /\ api.last.invoked = 0
  /\ api.last.returned # << >>
  /\ api.last.returned # api.last.result

====
